---------------------------- MODULE Spec2Model ----------------------------
(***************************************************************************)
(* A model of the DiscountCart price monitor: the two store scrapers       *)
(* (scraper/zaffari_scraper.py, scraper/carrefour_scraper.py), the batch   *)
(* operations built on them (ProductService.update_all_prices,             *)
(* scrape_multiple) and the price statistics of ProductService.            *)
(*                                                                         *)
(* Conventions.  Money is an integer number of cents.  Python's None is    *)
(* None (-1) for a price, NoTitle for a string, NoError (the empty         *)
(* sequence) for an error text.  An error text is the sequence of its      *)
(* words (punctuation split off, accents dropped), so that Python's        *)
(* `word in text` is membership of the word in the sequence.               *)
(***************************************************************************)
EXTENDS Integers, Sequences, FiniteSets, TLC

VARIABLES
    pc,         \* position of the running batch operation
    scraper,    \* scrape_multiple: the store whose scraper runs it
    queue,      \* update_all_prices: the products list; scrape_multiple: urls
    idx,        \* index of the item the loop is at (1-based)
    attempt,    \* update_all_prices: the inner `attempt` of the current item
    updated,    \* update_all_prices: ids appended to `updated`
    failed,     \* update_all_prices: ids appended to `failed`
    results,    \* scrape_multiple: the `results` list
    log,        \* one entry per scrape attempt of the running batch
    products,   \* table products: id -> row
    history,    \* table price_history, in insertion order
    call,       \* the last single scrape_product call (<<>> before the first)
    requests,   \* HTTP requests sent so far (page fetches and API calls)
    delays,     \* _random_delay sleeps so far
    query,      \* the last statistics query and its answer (<<>> before)
    next_id,    \* table products: the next AUTO_INCREMENT id
    alerts      \* table alerts: id -> row, in insertion order

vars == <<pc, scraper, queue, idx, attempt, updated, failed, results, log,
          products, history, call, requests, delays, query, next_id, alerts>>

-----------------------------------------------------------------------------
(* Python values *)

None == -1
NoTitle == "<None>"
NoError == <<>>

\* bool(x) of an Optional[Decimal]: None and Decimal(0) are falsy
Truthy(p) == p # None /\ p # 0

\* bool(s) of an Optional[str]
TruthyStr(s) == s # NoTitle /\ s # ""

Stores == {"zaffari", "carrefour"}

-----------------------------------------------------------------------------
(* Error texts, as word sequences *)

Lower(w) ==
    CASE w = "URL" -> "url"
      [] w = "Use" -> "use"
      [] w = "Zaffari" -> "zaffari"
      [] w = "Carrefour" -> "carrefour"
      [] w = "Falha" -> "falha"
      [] w = "Nao" -> "nao"
      [] w = "A" -> "a"
      [] w = "O" -> "o"
      [] w = "Request" -> "request"
      [] w = "Acesso" -> "acesso"
      [] w = "Tente" -> "tente"
      [] w = "HTTP" -> "http"
      [] w = "Server" -> "server"
      [] w = "Error" -> "error"
      [] w = "Service" -> "service"
      [] w = "Unavailable" -> "unavailable"
      [] w = "Forbidden" -> "forbidden"
      [] w = "Connection" -> "connection"
      [] w = "Site" -> "site"
      [] w = "Erro" -> "erro"
      [] w = "Invalid" -> "invalid"
      [] w = "IPv6" -> "ipv6"
      [] OTHER -> w

LowerText(m) == [i \in 1..Len(m) |-> Lower(m[i])]

Contains(m, w) == \E i \in 1..Len(m) : m[i] = w

MsgZaffariInvalidUrl ==
    <<"URL", "invalida", ".", "Use", "uma", "URL", "de", "produto", "do",
      "Zaffari", "(", "ex", ":", "zaffari.com.br/produto-123/p", ")">>

MsgCarrefourInvalidUrl ==
    <<"URL", "invalida", ".", "Use", "uma", "URL", "de", "produto", "do",
      "Carrefour", "(", "ex", ":", "mercado.carrefour.com.br/produto-123/p", ")">>

MsgZaffariTimeout ==
    <<"Request", "timed", "out", ".", "O", "site", "pode", "estar", "lento",
      "ou", "bloqueando", "requests", ".">>

MsgCarrefourTimeout ==
    <<"Request", "timed", "out", ".", "O", "site", "pode", "estar", "lento", ".">>

MsgZaffariForbidden ==
    <<"Acesso", "bloqueado", "pelo", "site", ".", "Tente", "novamente",
      "mais", "tarde", ".">>

MsgCarrefourForbidden == <<"Acesso", "bloqueado", "pelo", "site", ".">>

\* str(e) of requests' HTTPError for a 503 answer
MsgHttp503 ==
    <<"HTTP", "error", ":", "503", "Server", "Error", ":", "Service",
      "Unavailable", "for", "url", ":", "<url>">>

\* str(e) of a ConnectionError (DNS failure, connection reset)
MsgRequestFailed ==
    <<"Request", "failed", ":", "Connection", "aborted", ".">>

MsgZaffariNoContent == <<"Falha", "ao", "buscar", "conteudo", "da", "pagina">>

MsgZaffariNoTitle ==
    <<"Nao", "foi", "possivel", "extrair", "informacoes", "do", "produto", ".",
      "A", "estrutura", "da", "pagina", "pode", "ter", "mudado", ".">>

MsgCarrefourNoPriceHtml ==
    <<"Nao", "foi", "possivel", "extrair", "o", "preco", ".", "Site", "pode",
      "estar", "bloqueando", ".">>

MsgCarrefourNoPriceUrl ==
    <<"Nao", "foi", "possivel", "extrair", "o", "preco", ".", "Tente",
      "novamente", "mais", "tarde", ".">>

MsgCarrefourNoInfo ==
    <<"Falha", "ao", "buscar", "informacoes", "do", "produto", ".">>

\* str(e) of decimal.InvalidOperation
MsgInvalidOperation == <<"[", "<class 'decimal.ConversionSyntax'>", "]">>

MsgErro == <<"Erro", ":">>

MsgFalhaAtualizar == <<"Falha", "ao", "atualizar", "produto", ":">>

MsgNoPriceUpdate ==
    <<"Nao", "foi", "possivel", "extrair", "o", "preco", "do", "produto", ".",
      "O", "site", "pode", "estar", "bloqueando", ".">>

MsgInvalidIPv6 == <<"Invalid", "IPv6", "URL">>

-----------------------------------------------------------------------------
(* URLs.  A URL is [scheme, netloc, segs]: the text before "://" ("" when  *)
(* the string has none), the host, and the path's segments.  A segment is  *)
(* [slug, digits]: "queijo-1008729" is slug "queijo", digits "1008729";    *)
(* "1008729" is slug "", digits "1008729"; the marker "p" is slug "p".     *)

Seg(slug, digits) == [slug |-> slug, digits |-> digits]

\* slugs whose first letter is "p": after "/" they make "/p" occur in the path
PSlugs == {"p", "produto"}

StartsWithP(seg) == seg.slug \in PSlugs

\* urllib.parse.urlparse raises ValueError("Invalid IPv6 URL") for a netloc
\* with an unmatched square bracket
BracketNetlocs == {"[", "[www.zaffari.com.br"}

UrlparseRaises(url) == url.scheme # "" /\ url.netloc \in BracketNetlocs

\* urlparse(url).netloc: a string without "://" has no netloc
ParsedNetloc(url) == IF url.scheme = "" THEN "" ELSE url.netloc

\* '/p' in urlparse(url).path
PathHasSlashP(url) == \E i \in 1..Len(url.segs) : StartsWithP(url.segs[i])

ZaffariNetlocs == {"www.zaffari.com.br", "zaffari.com.br"}

CarrefourNetlocs == {"mercado.carrefour.com.br", "www.mercado.carrefour.com.br"}

validate_url(store, url) ==
    /\ ParsedNetloc(url) \in
          (IF store = "carrefour" THEN CarrefourNetlocs ELSE ZaffariNetlocs)
    /\ PathHasSlashP(url)

\* re.search(r'-(\d+)/p', url): the first segment "slug-digits" followed by a
\* segment that starts with "p"
DashDigitsAt(url) ==
    {i \in 1..(Len(url.segs) - 1) :
        /\ url.segs[i].slug # ""
        /\ url.segs[i].digits # ""
        /\ StartsWithP(url.segs[i + 1])}

\* re.search(r'/(\d+)/p', url): the first all-digit segment so followed
SlashDigitsAt(url) ==
    {i \in 1..(Len(url.segs) - 1) :
        /\ url.segs[i].slug = ""
        /\ url.segs[i].digits # ""
        /\ StartsWithP(url.segs[i + 1])}

MinOf(S) == CHOOSE x \in S : \A y \in S : x <= y

\* the result is NoTitle when the code returns None
extract_sku(url) ==
    IF DashDigitsAt(url) # {} THEN url.segs[MinOf(DashDigitsAt(url))].digits
    ELSE IF SlashDigitsAt(url) # {} THEN url.segs[MinOf(SlashDigitsAt(url))].digits
    ELSE NoTitle

normalize_url(url) ==
    IF url.scheme \in {"http", "https"} THEN url
    ELSE [url EXCEPT !.scheme = "https"]

\* str.title() of a slug
TitleCase(slug) ==
    CASE slug = "queijo" -> "Queijo"
      [] slug = "produto" -> "Produto"
      [] slug = "p" -> "P"
      [] OTHER -> slug

\* CarrefourScraper.extract_title_from_url: the path without a trailing "/p"
\* and without a trailing "-digits"; the title of its first segment stands for
\* the title of the whole slug
extract_title_from_url(url) ==
    LET n == Len(url.segs)
        body == IF n >= 2 /\ url.segs[n] = Seg("p", "")
                THEN SubSeq(url.segs, 1, n - 1) ELSE url.segs
    IN  IF body = <<>> THEN NoTitle
        ELSE IF body[1].slug # "" THEN TitleCase(body[1].slug)
        ELSE body[1].digits

-----------------------------------------------------------------------------
(* The network's answers.  An environment env is what the network returns  *)
(* during one scrape_product call: [fetch, page, api].                     *)
(*   fetch: "ok" | "empty" (200, empty body) | "timeout" | "http403" |     *)
(*          "http503" | "connerr"                                          *)
(*   page:  the parsed document (below)                                    *)
(*   api:   the answers of the three catalog endpoints, in order           *)

FetchOutcomes == {"ok", "empty", "timeout", "http403", "http503", "connerr"}

\* _fetch_page: [raised, msg, html]; html is bool(response.text)
ZaffariFetchPage(fetch) ==
    CASE fetch = "ok" -> [raised |-> FALSE, msg |-> NoError, html |-> TRUE]
      [] fetch = "empty" -> [raised |-> FALSE, msg |-> NoError, html |-> FALSE]
      [] fetch = "timeout" -> [raised |-> TRUE, msg |-> MsgZaffariTimeout, html |-> FALSE]
      [] fetch = "http403" -> [raised |-> TRUE, msg |-> MsgZaffariForbidden, html |-> FALSE]
      [] fetch = "http503" -> [raised |-> TRUE, msg |-> MsgHttp503, html |-> FALSE]
      [] OTHER -> [raised |-> TRUE, msg |-> MsgRequestFailed, html |-> FALSE]

CarrefourFetchPage(fetch) ==
    CASE fetch = "ok" -> [raised |-> FALSE, msg |-> NoError, html |-> TRUE]
      [] fetch = "empty" -> [raised |-> FALSE, msg |-> NoError, html |-> FALSE]
      [] fetch = "timeout" -> [raised |-> TRUE, msg |-> MsgCarrefourTimeout, html |-> FALSE]
      [] fetch = "http403" -> [raised |-> TRUE, msg |-> MsgCarrefourForbidden, html |-> FALSE]
      [] fetch = "http503" -> [raised |-> TRUE, msg |-> MsgHttp503, html |-> FALSE]
      [] OTHER -> [raised |-> TRUE, msg |-> MsgRequestFailed, html |-> FALSE]

-----------------------------------------------------------------------------
(* Pages.  page = [title, sel, ld, st, unavailSel, unavailText]:           *)
(*   title: what the title selector loop finds (NoTitle: nothing)          *)
(*   sel:   per price selector, in list order, _parse_price of the text of *)
(*          the element it selects (None: no element, or no number in it)  *)
(*   ld:    the JSON-LD script blocks in document order (below)            *)
(*   st:    per script-state pattern, in list order, the number its regex  *)
(*          captures, in cents (None: no match)                            *)
(*   unavailSel, unavailText: an "unavailable" element / text is present   *)
(* A JSON-LD block is [json, type, offers, price, lowPrice]:               *)
(*   json: "bad" (json.loads raises) | "dict" | "list" (a list of one item)*)
(*   type: the item's "@type";  offers: "absent" | "dict" | "list"         *)
(*   price, lowPrice: the value under that key of the (first) offer: cents,*)
(*   None when the key is missing, BadNumber when it is not a number       *)

BadNumber == -2

Block(json, type, offers, price, lowPrice) ==
    [json |-> json, type |-> type, offers |-> offers, price |-> price,
     lowPrice |-> lowPrice]

\* Decimal(str(v)) raises decimal.InvalidOperation
DecimalRaises(v) == v = BadNumber

\* bool(v) of a JSON value: a missing key (None) and the number 0 are falsy
TruthyJson(v) == v # None /\ v # 0

-----------------------------------------------------------------------------
(* _parse_product_page *)

\* the price selector loop: the first selector, in list order, whose element
\* text parses to a positive amount
FirstSelectorPrice(sel) ==
    LET ok == {i \in 1..Len(sel) : Truthy(sel[i]) /\ sel[i] > 0}
    IN  IF ok = {} THEN None ELSE sel[MinOf(ok)]

\* Zaffari's JSON-LD loop, `price` being product.price so far: every block
\* with an offer assigns product.price, and the loop has no break
RECURSIVE ZaffariJsonLd(_, _)
ZaffariJsonLd(ld, price) ==
    IF ld = <<>> THEN price
    ELSE LET b == Head(ld)
             assigned ==
                 IF b.json = "dict" /\ b.offers = "dict" /\ b.price # None
                 THEN (IF DecimalRaises(b.price) THEN price ELSE b.price)
                 ELSE IF b.json = "dict" /\ b.offers = "list"
                 THEN (IF b.price = None THEN 0
                       ELSE IF DecimalRaises(b.price) THEN price ELSE b.price)
                 ELSE price
         IN  ZaffariJsonLd(Tail(ld), assigned)

ZaffariParseProductPage(page) ==
    LET p1 == FirstSelectorPrice(page.sel)
        p2 == IF ~Truthy(p1) THEN ZaffariJsonLd(page.ld, p1) ELSE p1
    IN  [raised |-> FALSE,
         title |-> page.title,
         price |-> p2,
         is_available |-> ~page.unavailSel /\ ~(page.unavailText /\ ~Truthy(p2))]

\* CarrefourScraper._extract_price_from_json_ld: [raised, price]; the first
\* Product block with a truthy offer price returns, and a price that is not
\* a number raises decimal.InvalidOperation, which the loop does not catch
RECURSIVE _extract_price_from_json_ld(_)
_extract_price_from_json_ld(ld) ==
    IF ld = <<>> THEN [raised |-> FALSE, price |-> None]
    ELSE LET b == Head(ld)
             cand ==
                 IF b.json \in {"dict", "list"} /\ b.type = "Product"
                 THEN IF b.offers \in {"absent", "dict"}
                      THEN (IF TruthyJson(b.price) THEN b.price ELSE b.lowPrice)
                      ELSE IF b.json = "dict" THEN b.price ELSE None
                 ELSE None
         IN  IF TruthyJson(cand)
             THEN (IF DecimalRaises(cand) THEN [raised |-> TRUE, price |-> None]
                   ELSE [raised |-> FALSE, price |-> cand])
             ELSE _extract_price_from_json_ld(Tail(ld))

\* round(num/den) to the nearest integer, ties to even
RoundHalfEven(num, den) ==
    LET q == num \div den
        r == num % den
    IN  IF 2 * r < den THEN q
        ELSE IF 2 * r > den THEN q + 1
        ELSE IF q % 2 = 0 THEN q ELSE q + 1

\* one pattern's captured amount v (cents): above 10000.00 it is divided by
\* 100; it is accepted when 0.01 < price < 100000, rounded to 2 decimals
StateCandidate(v) ==
    IF ~Truthy(v) THEN None
    ELSE LET den == IF v > 1000000 THEN 100 ELSE 1
         IN  IF den < v /\ v < 10000000 * den
             THEN RoundHalfEven(v, den) ELSE None

\* CarrefourScraper._extract_price_from_state: the first pattern, in list
\* order, whose amount passes the sanity check
_extract_price_from_state(st) ==
    LET ok == {i \in 1..Len(st) : StateCandidate(st[i]) # None}
    IN  IF ok = {} THEN None ELSE StateCandidate(st[MinOf(ok)])

CarrefourParseProductPage(page) ==
    LET p1 == FirstSelectorPrice(page.sel)
        ld == _extract_price_from_json_ld(page.ld)
        p2 == IF ~Truthy(p1) THEN ld.price ELSE p1
        p3 == IF ~Truthy(p2) THEN _extract_price_from_state(page.st) ELSE p2
    IN  [raised |-> ~Truthy(p1) /\ ld.raised,
         title |-> page.title,
         price |-> p3,
         is_available |-> ~(page.unavailText /\ ~Truthy(p3))]

-----------------------------------------------------------------------------
(* scrape_product.  The answer is [raised, exc, rec, requests, delays]:    *)
(* whether the call raised (and str of the exception), the ScrapedProduct  *)
(* it returned, and how many HTTP requests and sleeps it made.             *)

ScrapedProduct(sku, url, title, price, is_available, error) ==
    [sku |-> sku, url |-> url, title |-> title, price |-> price,
     is_available |-> is_available, error |-> error]

Returned(rec, nreq, ndelay) ==
    [raised |-> FALSE, exc |-> NoError, rec |-> rec, requests |-> nreq,
     delays |-> ndelay]

Raised(url, exc) ==
    [raised |-> TRUE, exc |-> exc,
     rec |-> ScrapedProduct("", url, NoTitle, None, FALSE, exc),
     requests |-> 0, delays |-> 0]

\* the early return of scrape_product for a URL that validate_url rejects
ZaffariInvalidUrl(url) ==
    Returned(ScrapedProduct("", url, NoTitle, None, FALSE, MsgZaffariInvalidUrl),
             0, 0)

CarrefourInvalidUrl(url) ==
    Returned(ScrapedProduct("", url, NoTitle, None, FALSE, MsgCarrefourInvalidUrl),
             0, 0)

SkuOrUnknown(url) ==
    IF TruthyStr(extract_sku(url)) THEN extract_sku(url) ELSE "unknown"

ZaffariScrapeProduct(url, env) ==
    IF UrlparseRaises(url) THEN Raised(url, MsgInvalidIPv6)
    ELSE IF ~validate_url("zaffari", url) THEN ZaffariInvalidUrl(url)
    ELSE LET sku == SkuOrUnknown(url)
             nurl == normalize_url(url)
             f == ZaffariFetchPage(env.fetch)
             p == ZaffariParseProductPage(env.page)
         IN  IF f.raised
             THEN Returned(ScrapedProduct(sku, nurl, NoTitle, None, FALSE, f.msg), 1, 1)
             ELSE IF ~f.html
             THEN Returned(ScrapedProduct(sku, nurl, NoTitle, None, FALSE,
                                          MsgZaffariNoContent), 1, 1)
             ELSE Returned(ScrapedProduct(sku, nurl, p.title, p.price,
                               p.is_available,
                               IF ~TruthyStr(p.title) THEN MsgZaffariNoTitle
                               ELSE NoError), 1, 1)

(* The catalog API.  An endpoint's answer is [kind, name, items, price,    *)
(* spot]: kind "exc" (the request or response.json() raised), "non200",    *)
(* "empty" (200 with an empty list) or "data"; for "data", the first       *)
(* product's name (NoTitle: none), whether items[0].sellers[0] exists, and *)
(* its commertialOffer's Price and spotPrice (cents, None when missing).   *)

ApiAnswer(kind, name, items, price, spot) ==
    [kind |-> kind, name |-> name, items |-> items, price |-> price,
     spot |-> spot]

\* CarrefourScraper._fetch_price_from_api: [found, data, requests]: the
\* first endpoint, in list order, that answers 200 with a non-empty list
_fetch_price_from_api(api) ==
    LET ok == {i \in 1..Len(api) : api[i].kind = "data"}
    IN  IF ok = {}
        THEN [found |-> FALSE, data |-> ApiAnswer("empty", NoTitle, FALSE, None, None),
              requests |-> Len(api)]
        ELSE [found |-> TRUE, data |-> api[MinOf(ok)], requests |-> MinOf(ok)]

\* the except clause of CarrefourScraper.scrape_product
CarrefourOnException(sku, nurl, url_title, msg, nreq) ==
    IF TruthyStr(url_title)
    THEN Returned(ScrapedProduct(sku, nurl, url_title, None, TRUE, MsgErro \o msg),
                  nreq, 1)
    ELSE Returned(ScrapedProduct(sku, nurl, NoTitle, None, FALSE, msg), nreq, 1)

CarrefourScrapeProduct(url, env) ==
    IF UrlparseRaises(url) THEN Raised(url, MsgInvalidIPv6)
    ELSE IF ~validate_url("carrefour", url) THEN CarrefourInvalidUrl(url)
    ELSE LET sku == SkuOrUnknown(url)
             nurl == normalize_url(url)
             url_title == extract_title_from_url(nurl)
             f == CarrefourFetchPage(env.fetch)
             p == CarrefourParseProductPage(env.page)
             title == IF ~TruthyStr(p.title) /\ TruthyStr(url_title)
                      THEN url_title ELSE p.title
             a == _fetch_price_from_api(env.api)
             offer == IF a.data.items
                      THEN (IF TruthyJson(a.data.price) THEN a.data.price
                            ELSE a.data.spot)
                      ELSE None
             nreq == 1 + a.requests
         IN  IF f.raised THEN CarrefourOnException(sku, nurl, url_title, f.msg, 1)
             ELSE IF f.html /\ p.raised
             THEN CarrefourOnException(sku, nurl, url_title, MsgInvalidOperation, 1)
             ELSE IF f.html /\ TruthyStr(title) /\ Truthy(p.price)
             THEN Returned(ScrapedProduct(sku, nurl, title, p.price,
                                          p.is_available, NoError), 1, 1)
             ELSE IF a.found /\ TruthyJson(offer)
             THEN (IF DecimalRaises(offer)
                   THEN CarrefourOnException(sku, nurl, url_title,
                                             MsgInvalidOperation, nreq)
                   ELSE Returned(ScrapedProduct(sku, nurl,
                            IF TruthyStr(a.data.name) THEN a.data.name ELSE url_title,
                            offer, TRUE, NoError), nreq, 1))
             ELSE IF f.html /\ TruthyStr(title) /\ ~Truthy(p.price)
             THEN Returned(ScrapedProduct(sku, nurl, title, p.price,
                               p.is_available, MsgCarrefourNoPriceHtml), nreq, 1)
             ELSE IF TruthyStr(url_title)
             THEN Returned(ScrapedProduct(sku, nurl, url_title, None, TRUE,
                                          MsgCarrefourNoPriceUrl), nreq, 1)
             ELSE Returned(ScrapedProduct(sku, nurl, NoTitle, None, FALSE,
                                          MsgCarrefourNoInfo), nreq, 1)

scrape_product(store, url, env) ==
    IF store = "carrefour" THEN CarrefourScrapeProduct(url, env)
    ELSE ZaffariScrapeProduct(url, env)

-----------------------------------------------------------------------------
(* Inputs of the scrape specification *)

MaxSelectors == 2   \* price selectors modelled (of the 10 of each scraper)
MaxBlocks == 2      \* JSON-LD blocks on a page
MaxPatterns == 2    \* script-state patterns modelled (of the 6)
NumEndpoints == 3   \* catalog API endpoints

SeqsUpTo(S, n) == UNION {[1..k -> S] : k \in 0..n}

Titles == {NoTitle, "Queijo Mussarela"}

Page(title, sel, ld, st, unavailSel, unavailText) ==
    [title |-> title, sel |-> sel, ld |-> ld, st |-> st,
     unavailSel |-> unavailSel, unavailText |-> unavailText]

NoSelectors == [i \in 1..MaxSelectors |-> None]
NoPatterns == [i \in 1..MaxPatterns |-> None]

SelValues == {None, 0, 1290}
StValues == {None, 1, 1890, 1299900}

BlockBad == Block("bad", "", "absent", None, None)
BlockPrice1 == Block("dict", "Product", "dict", 1490, None)
BlockPrice2 == Block("dict", "Product", "dict", 1590, None)
BlockLowPrice == Block("dict", "Product", "dict", None, 1390)
BlockNotProduct == Block("dict", "Other", "dict", 1690, None)
BlockOfferList == Block("dict", "Product", "list", None, None)
BlockBadPrice == Block("dict", "Product", "dict", BadNumber, None)
BlockItemList == Block("list", "Product", "dict", 1790, None)

ZaffariBlocks == {BlockBad, BlockPrice1, BlockPrice2, BlockNotProduct,
                  BlockOfferList, BlockBadPrice}

CarrefourBlocks == {BlockBad, BlockPrice1, BlockLowPrice, BlockNotProduct,
                    BlockBadPrice, BlockItemList}

BlankPage == Page(NoTitle, NoSelectors, <<>>, NoPatterns, FALSE, FALSE)

\* a page with a title (or none) and no price signal at all
PricelessPage(t) == Page(t, NoSelectors, <<>>, NoPatterns, FALSE, FALSE)

\* a page with a title and a price in the first selector
GoodPage(p) ==
    Page("Queijo Mussarela", [i \in 1..MaxSelectors |-> IF i = 1 THEN p ELSE None],
         <<>>, NoPatterns, FALSE, FALSE)

ApiAnswers ==
    {ApiAnswer("exc", NoTitle, FALSE, None, None),
     ApiAnswer("non200", NoTitle, FALSE, None, None),
     ApiAnswer("empty", NoTitle, FALSE, None, None),
     ApiAnswer("data", "Queijo API", FALSE, None, None),
     ApiAnswer("data", "Queijo API", TRUE, 1990, None),
     ApiAnswer("data", NoTitle, TRUE, 0, 2090)}

ApiSeqs == [1..NumEndpoints -> ApiAnswers]

NoApi == [i \in 1..NumEndpoints |-> ApiAnswer("exc", NoTitle, FALSE, None, None)]

Env(fetch, page, api) == [fetch |-> fetch, page |-> page, api |-> api]

Url(scheme, netloc, segs) == [scheme |-> scheme, netloc |-> netloc, segs |-> segs]

ZaffariUrl == Url("https", "www.zaffari.com.br", <<Seg("queijo", "1008729"), Seg("p", "")>>)
CarrefourUrl == Url("https", "mercado.carrefour.com.br", <<Seg("queijo", "3294"), Seg("p", "")>>)

ScrapeUrls ==
    {ZaffariUrl, CarrefourUrl,
     Url("https", "zaffari.com.br", <<Seg("queijo", ""), Seg("p", "")>>),
     Url("https", "www.mercado.carrefour.com.br", <<Seg("", "3294"), Seg("p", "")>>),
     Url("https", "www.zaffari.com.br", <<Seg("produto", "123")>>),
     Url("", "www.zaffari.com.br", <<Seg("queijo", "1008729"), Seg("p", "")>>),
     Url("", "mercado.carrefour.com.br", <<Seg("queijo", "3294"), Seg("p", "")>>),
     Url("https", "example.com", <<Seg("queijo", "1"), Seg("p", "")>>),
     Url("https", "www.zaffari.com.br", <<Seg("queijo", "1008729")>>),
     Url("https", "mercado.carrefour.com.br", <<>>),
     Url("https", "[", <<Seg("queijo", "1"), Seg("p", "")>>)}

FailEnvs ==
    {Env(f, BlankPage, NoApi) : f \in FetchOutcomes \ {"ok"}}

\* the answers every URL is tried against
SmallEnvs ==
    FailEnvs \cup {Env("ok", GoodPage(1290), NoApi),
                   Env("ok", PricelessPage("Queijo Mussarela"), NoApi),
                   Env("ok", BlankPage, NoApi)}

-----------------------------------------------------------------------------
(* The scrape specification: one scrape_product call on a fresh scraper *)

NoBatch ==
    /\ pc = "idle" /\ scraper = "" /\ queue = <<>> /\ idx = 0 /\ attempt = 0
    /\ updated = <<>> /\ failed = <<>> /\ results = <<>> /\ log = <<>>

NoTables == products = <<>> /\ history = <<>>

InitScrape ==
    /\ NoBatch /\ NoTables
    /\ call = <<>> /\ requests = 0 /\ delays = 0 /\ query = <<>>
    /\ next_id = Len(products) + 1 /\ alerts = <<>>

Scrape(store, url, env) ==
    LET ans == scrape_product(store, url, env)
    IN  /\ call = <<>>
        /\ call' = <<[store |-> store, url |-> url, env |-> env, ans |-> ans]>>
        /\ requests' = requests + ans.requests
        /\ delays' = delays + ans.delays
        /\ UNCHANGED <<next_id, alerts, pc, scraper, queue, idx, attempt, updated, failed,
                       results, log, products, history, query>>

\* a page the scraper was answered with on a valid URL
ScrapePage(store, page) ==
    Scrape(store, IF store = "zaffari" THEN ZaffariUrl ELSE CarrefourUrl,
           Env("ok", page, NoApi))

\* every selector combination with at most one JSON-LD block, and every
\* JSON-LD sequence with silent selectors
ZaffariScrape ==
    \/ \E url \in ScrapeUrls, env \in SmallEnvs : Scrape("zaffari", url, env)
    \/ \E t \in Titles, sel \in [1..MaxSelectors -> SelValues],
          ld \in SeqsUpTo(ZaffariBlocks, 1), us \in BOOLEAN, ut \in BOOLEAN :
          ScrapePage("zaffari", Page(t, sel, ld, <<>>, us, ut))
    \/ \E t \in Titles, ld \in SeqsUpTo(ZaffariBlocks, MaxBlocks),
          us \in BOOLEAN, ut \in BOOLEAN :
          ScrapePage("zaffari", Page(t, NoSelectors, ld, <<>>, us, ut))

\* the same with the script-state patterns all silent or all matching, every
\* pattern combination with at most one JSON-LD block, and every sequence of
\* API answers on a page without a price
CarrefourScrape ==
    \/ \E url \in ScrapeUrls, env \in SmallEnvs : Scrape("carrefour", url, env)
    \/ \E t \in Titles, sel \in [1..MaxSelectors -> SelValues],
          ld \in SeqsUpTo(CarrefourBlocks, 1),
          st \in {NoPatterns, [i \in 1..MaxPatterns |-> 1890]}, ut \in BOOLEAN :
          ScrapePage("carrefour", Page(t, sel, ld, st, FALSE, ut))
    \/ \E t \in Titles, ld \in SeqsUpTo(CarrefourBlocks, MaxBlocks),
          st \in {NoPatterns, [i \in 1..MaxPatterns |-> 1890]}, ut \in BOOLEAN :
          ScrapePage("carrefour", Page(t, NoSelectors, ld, st, FALSE, ut))
    \/ \E t \in Titles, ld \in SeqsUpTo(CarrefourBlocks, 1),
          st \in [1..MaxPatterns -> StValues], ut \in BOOLEAN :
          ScrapePage("carrefour", Page(t, NoSelectors, ld, st, FALSE, ut))
    \/ \E f \in {"ok", "empty"}, t \in Titles, api \in ApiSeqs :
          Scrape("carrefour", CarrefourUrl, Env(f, PricelessPage(t), api))

NextScrape == ZaffariScrape \/ CarrefourScrape

SpecScrape == InitScrape /\ [][NextScrape]_vars

-----------------------------------------------------------------------------
(* ProductService: the tables and update_product_price.  A products row is *)
(* [id, asin, url, title, store, current_price, lowest_price,              *)
(* highest_price, is_active]; a price_history row is [product_id, price,   *)
(* was_available, age], age being the days since recorded_at.              *)

\* a minimum that keeps the stored value
MinPriceStored(a, b) == a

MinPrice(a, b) == IF a <= b THEN a ELSE b
MaxPrice(a, b) == IF a >= b THEN a ELSE b

\* a price_history that keeps only the latest observation
_record_price_history_latest(hist, product_id, price, was_available) ==
    <<[product_id |-> product_id, price |-> price,
       was_available |-> was_available, age |-> 0]>>

_record_price_history(hist, product_id, price, was_available) ==
    Append(hist, [product_id |-> product_id, price |-> price,
                  was_available |-> was_available, age |-> 0])

\* an update_product_price that stores the scraped price before it looks at
\* the scrape's error and price
update_product_price_eager(tbl, hist, product_id, env) ==
    IF product_id \notin DOMAIN tbl
    THEN [kind |-> "none", exc |-> NoError, products |-> tbl, history |-> hist,
          requests |-> 0, delays |-> 0]
    ELSE LET product == tbl[product_id]
             ans == scrape_product(product.store, product.url, env)
             scraped == ans.rec
             stored == [tbl EXCEPT ![product_id] =
                           [@ EXCEPT !.current_price = scraped.price,
                                     !.lowest_price = MinPrice(@, scraped.price),
                                     !.highest_price = MaxPrice(@, scraped.price)]]
             result(kind, exc) ==
                 [kind |-> kind, exc |-> exc, products |-> stored,
                  history |-> IF kind = "ok"
                              THEN _record_price_history(hist, product_id,
                                       scraped.price, scraped.is_available)
                              ELSE hist,
                  requests |-> ans.requests, delays |-> ans.delays]
         IN  IF ans.raised
             THEN [kind |-> "raise", exc |-> ans.exc, products |-> tbl,
                   history |-> hist, requests |-> ans.requests,
                   delays |-> ans.delays]
             ELSE IF scraped.error # NoError
             THEN result("raise", MsgFalhaAtualizar \o scraped.error)
             ELSE IF ~Truthy(scraped.price) THEN result("raise", MsgNoPriceUpdate)
             ELSE result("ok", NoError)

\* [kind, exc, products, history, requests, delays]: kind "none" (returned
\* None), "raise" (raised ValueError(exc)) or "ok" (returned the product)
update_product_price(tbl, hist, product_id, env) ==
    IF product_id \notin DOMAIN tbl
    THEN [kind |-> "none", exc |-> NoError, products |-> tbl, history |-> hist,
          requests |-> 0, delays |-> 0]
    ELSE LET product == tbl[product_id]
             ans == scrape_product(product.store, product.url, env)
             scraped == ans.rec
             new_lowest ==
                 MinPrice(IF Truthy(product.lowest_price) THEN product.lowest_price
                          ELSE scraped.price, scraped.price)
             new_highest ==
                 MaxPrice(IF Truthy(product.highest_price) THEN product.highest_price
                          ELSE scraped.price, scraped.price)
             raise(exc) ==
                 [kind |-> "raise", exc |-> exc, products |-> tbl, history |-> hist,
                  requests |-> ans.requests, delays |-> ans.delays]
         IN  IF ans.raised THEN raise(ans.exc)
             ELSE IF scraped.error # NoError
             THEN raise(MsgFalhaAtualizar \o scraped.error)
             ELSE IF ~Truthy(scraped.price) THEN raise(MsgNoPriceUpdate)
             ELSE [kind |-> "ok", exc |-> NoError,
                   products |->
                       [tbl EXCEPT ![product_id] =
                           [@ EXCEPT !.current_price = scraped.price,
                                     !.lowest_price = new_lowest,
                                     !.highest_price = new_highest]],
                   history |-> _record_price_history(hist, product_id,
                                   scraped.price, scraped.is_available),
                   requests |-> ans.requests, delays |-> ans.delays]

RECURSIVE SortedIds(_)
SortedIds(S) ==
    IF S = {} THEN <<>> ELSE <<MinOf(S)>> \o SortedIds(S \ {MinOf(S)})

\* get_all_products(active_only=True): the ids of the active rows, ORDER BY
\* store (rows of equal store are taken in id order)
get_all_products(tbl) ==
    SortedIds({i \in DOMAIN tbl : tbl[i].is_active /\ tbl[i].store = "carrefour"})
    \o SortedIds({i \in DOMAIN tbl : tbl[i].is_active /\ tbl[i].store = "zaffari"})

-----------------------------------------------------------------------------
(* update_all_prices and scrape_multiple, one loop iteration per step *)

MaxProducts == 2    \* rows of the products table
MaxUrls == 2        \* length of the list passed to scrape_multiple
MaxAttempts == 2    \* for attempt in range(2)

\* the test of the except clause: 'bloqueando' in str(e).lower() or
\* 'blocked' in str(e).lower()
IsBlocked(exc) ==
    Contains(LowerText(exc), "bloqueando") \/ Contains(LowerText(exc), "blocked")

\* a loop that gives up at the first blocked answer
OnValueErrorNoRetry(exc, att) ==
    [sleep |-> FALSE, fail |-> TRUE, brk |-> TRUE]

\* an except clause that records a non-blocked error and goes on to the
\* second attempt
OnValueErrorNoBreak(exc, att) ==
    IF IsBlocked(exc)
    THEN (IF att = 0 THEN [sleep |-> TRUE, fail |-> FALSE, brk |-> FALSE]
          ELSE [sleep |-> FALSE, fail |-> TRUE, brk |-> FALSE])
    ELSE [sleep |-> FALSE, fail |-> TRUE, brk |-> FALSE]

\* the except clause: whether it sleeps retry_delay, appends to failed, breaks
OnValueError(exc, att) ==
    IF IsBlocked(exc)
    THEN (IF att = 0 THEN [sleep |-> TRUE, fail |-> FALSE, brk |-> FALSE]
          ELSE [sleep |-> FALSE, fail |-> TRUE, brk |-> FALSE])
    ELSE [sleep |-> FALSE, fail |-> TRUE, brk |-> TRUE]

InitialPrice == 10 * 100    \* R$ 10,00, the price the products were added at

ProductRow(id, store, active) ==
    [id |-> id,
     asin |-> IF store = "carrefour" THEN "3294" ELSE "1008729",
     url |-> IF store = "carrefour" THEN CarrefourUrl ELSE ZaffariUrl,
     title |-> "Queijo Mussarela", store |-> store,
     current_price |-> InitialPrice, lowest_price |-> InitialPrice,
     highest_price |-> InitialPrice, is_active |-> active]

BatchEnvs ==
    {Env("ok", GoodPage(900), NoApi), Env("ok", GoodPage(1100), NoApi),
     Env("ok", PricelessPage("Queijo Mussarela"), NoApi),
     Env("timeout", BlankPage, NoApi), Env("http403", BlankPage, NoApi),
     Env("http503", BlankPage, NoApi), Env("connerr", BlankPage, NoApi)}

BracketUrl == Url("https", "[", <<Seg("queijo", "1"), Seg("p", "")>>)

BatchUrls == {ZaffariUrl, CarrefourUrl, BracketUrl}

MultipleEnvs ==
    {Env("ok", GoodPage(900), NoApi),
     Env("ok", PricelessPage("Queijo Mussarela"), NoApi),
     Env("timeout", BlankPage, NoApi)}

InitBatch ==
    /\ NoBatch
    /\ \E st \in [1..MaxProducts -> Stores], ac \in [1..MaxProducts -> BOOLEAN] :
          products = [i \in 1..MaxProducts |-> ProductRow(i, st[i], ac[i])]
    /\ history = [i \in 1..MaxProducts |->
                    [product_id |-> i, price |-> InitialPrice,
                     was_available |-> TRUE, age |-> 0]]
    /\ call = <<>> /\ requests = 0 /\ delays = 0 /\ query = <<>>
    /\ next_id = Len(products) + 1 /\ alerts = <<>>

\* update_all_prices up to the loop: products, updated, failed
StartUpdateAll ==
    /\ pc = "idle"
    /\ pc' = "update"
    /\ queue' = get_all_products(products)
    /\ idx' = 1 /\ attempt' = 0
    /\ updated' = <<>> /\ failed' = <<>> /\ log' = <<>>
    /\ UNCHANGED <<next_id, alerts, scraper, results, products, history, call, requests, delays,
                   query>>

\* one pass of the body of `for attempt in range(2)` for products[idx]
UpdateAttempt ==
    /\ pc = "update"
    /\ idx <= Len(queue)
    /\ \E env \in BatchEnvs :
        \E r \in {update_product_price(products, history, queue[idx], env)} :
        LET id == queue[idx]
            h == OnValueError(r.exc, attempt)
            caught == r.kind = "raise"
            leave == ~caught \/ h.brk \/ attempt + 1 = MaxAttempts
        IN  /\ products' = r.products
            /\ history' = r.history
            /\ requests' = requests + r.requests
            /\ delays' = delays + r.delays
            /\ updated' = IF r.kind = "ok" THEN Append(updated, id) ELSE updated
            /\ failed' = IF caught /\ h.fail
                         THEN Append(failed, [id |-> id, exc |-> r.exc])
                         ELSE failed
            /\ log' = Append(log, [id |-> id, attempt |-> attempt,
                                   store |-> products[id].store,
                                   fetch |-> env.fetch, kind |-> r.kind,
                                   exc |-> r.exc,
                                   slept |-> caught /\ h.sleep])
            /\ idx' = IF leave THEN idx + 1 ELSE idx
            /\ attempt' = IF leave THEN 0 ELSE attempt + 1
    /\ UNCHANGED <<next_id, alerts, pc, scraper, queue, results, call, query>>

\* the loop is over: update_all_prices returns updated
FinishUpdateAll ==
    /\ pc = "update"
    /\ idx > Len(queue)
    /\ pc' = "done"
    /\ UNCHANGED <<next_id, alerts, scraper, queue, idx, attempt, updated, failed, results, log,
                   products, history, call, requests, delays, query>>

StartScrapeMultiple ==
    /\ pc = "idle"
    /\ \E store \in Stores, urls \in SeqsUpTo(BatchUrls, MaxUrls) :
          /\ scraper' = store
          /\ queue' = urls
    /\ pc' = "scrape"
    /\ idx' = 1
    /\ results' = <<>>
    /\ UNCHANGED <<next_id, alerts, attempt, updated, failed, log, products, history, call,
                   requests, delays, query>>

\* one iteration of scrape_multiple's loop; an exception that scrape_product
\* lets out ends scrape_multiple
ScrapeNext ==
    /\ pc = "scrape"
    /\ idx <= Len(queue)
    /\ \E env \in MultipleEnvs :
        LET ans == scrape_product(scraper, queue[idx], env)
        IN  /\ pc' = IF ans.raised THEN "raised" ELSE pc
            /\ results' = IF ans.raised THEN results ELSE Append(results, ans.rec)
            /\ idx' = IF ans.raised THEN idx ELSE idx + 1
            /\ requests' = requests + ans.requests
            /\ delays' = delays + ans.delays
                            + (IF ~ans.raised /\ idx < Len(queue) THEN 1 ELSE 0)
    /\ UNCHANGED <<next_id, alerts, scraper, queue, attempt, updated, failed, log, products,
                   history, call, query>>

FinishScrapeMultiple ==
    /\ pc = "scrape"
    /\ idx > Len(queue)
    /\ pc' = "done"
    /\ UNCHANGED <<next_id, alerts, scraper, queue, idx, attempt, updated, failed, results, log,
                   products, history, call, requests, delays, query>>

NextBatch ==
    \/ StartUpdateAll
    \/ UpdateAttempt
    \/ FinishUpdateAll
    \/ StartScrapeMultiple
    \/ ScrapeNext
    \/ FinishScrapeMultiple

SpecBatch == InitBatch /\ [][NextBatch]_vars

-----------------------------------------------------------------------------
(* ProductService: price statistics.  Prices are whole cents; the floats    *)
(* of get_std_deviation are taken as the exact quotients they approximate,  *)
(* and round(x, 2) as rounding to the nearest cent, ties to even.           *)

Reverse(s) == [i \in 1..Len(s) |-> s[Len(s) + 1 - i]]

\* the query without its recorded_at condition
get_price_history_unbounded(hist, product_id, days) ==
    LET Mine(row) == row.product_id = product_id
    IN  Reverse(SelectSeq(hist, Mine))

\* WHERE product_id = %s AND recorded_at >= DATE_SUB(NOW(), INTERVAL %s DAY)
\* ORDER BY recorded_at DESC
get_price_history(hist, product_id, days) ==
    LET InWindow(row) == row.product_id = product_id /\ row.age <= days
    IN  Reverse(SelectSeq(hist, InWindow))

MaxOf(S) == CHOOSE x \in S : \A y \in S : y <= x

RECURSIVE SumPrices(_)
SumPrices(rows) ==
    IF rows = <<>> THEN 0 ELSE Head(rows).price + SumPrices(Tail(rows))

\* sum((n*p - total) ** 2 for p in prices): n*n times the sum of the squared
\* deviations from the mean
RECURSIVE SumSquares(_, _, _)
SumSquares(rows, n, total) ==
    IF rows = <<>> THEN 0
    ELSE (n * Head(rows).price - total) * (n * Head(rows).price - total)
         + SumSquares(Tail(rows), n, total)

\* round(math.sqrt(num / den)), hi being an upper bound of the root
RoundSqrt(num, den, hi) ==
    LET k == CHOOSE k \in 0..hi :
                 k * k * den <= num /\ num < (k + 1) * (k + 1) * den
        half == (2 * k + 1) * (2 * k + 1) * den
    IN  IF 4 * num < half THEN k
        ELSE IF 4 * num > half THEN k + 1
        ELSE IF k % 2 = 0 THEN k ELSE k + 1

NoStats == <<>>

\* the sample deviation: the squared deviations divided by n - 1
get_std_deviation_sample(hist, product_id, days) ==
    LET h == get_price_history(hist, product_id, days)
        n == Len(h)
        total == SumPrices(h)
        prices == {h[i].price : i \in 1..n}
        hi == MaxOf(prices) - MinOf(prices)
    IN  IF n < 2 THEN NoStats
        ELSE [avg |-> RoundHalfEven(total, n),
              std |-> RoundSqrt(SumSquares(h, n, total), n * n * (n - 1), hi)]

get_std_deviation(hist, product_id, days) ==
    LET h == get_price_history(hist, product_id, days)
        n == Len(h)
        total == SumPrices(h)
        prices == {h[i].price : i \in 1..n}
        hi == MaxOf(prices) - MinOf(prices)
    IN  IF n < 2 THEN NoStats
        ELSE [avg |-> RoundHalfEven(total, n),
              std |-> RoundSqrt(SumSquares(h, n, total), n * n * n, hi)]

Periods == {30, 90, 180}
StdLevels == {1, 2}

\* buckets made exclusive: the list of a level leaves out the products that
\* are below the next level's threshold as well
get_products_below_std_deviation_exclusive(tbl, hist, days, num_std_dev) ==
    LET stats(id) == get_std_deviation(hist, id, days)
        threshold(id) == stats(id).avg - stats(id).std * num_std_dev
        Below(id) ==
            /\ Truthy(tbl[id].current_price)
            /\ stats(id) # NoStats
            /\ tbl[id].current_price <= threshold(id)
            /\ tbl[id].current_price > threshold(id) - stats(id).std
        hits == SelectSeq(get_all_products(tbl), Below)
    IN  [i \in 1..Len(hits) |->
            [product |-> hits[i], avg_price |-> stats(hits[i]).avg,
             std_deviation |-> stats(hits[i]).std,
             threshold |-> threshold(hits[i]),
             num_std_dev |-> num_std_dev, days |-> days]]

get_products_below_std_deviation(tbl, hist, days, num_std_dev) ==
    LET stats(id) == get_std_deviation(hist, id, days)
        threshold(id) == stats(id).avg - stats(id).std * num_std_dev
        Below(id) ==
            /\ Truthy(tbl[id].current_price)
            /\ stats(id) # NoStats
            /\ tbl[id].current_price <= threshold(id)
        hits == SelectSeq(get_all_products(tbl), Below)
    IN  [i \in 1..Len(hits) |->
            [product |-> hits[i], avg_price |-> stats(hits[i]).avg,
             std_deviation |-> stats(hits[i]).std,
             threshold |-> threshold(hits[i]),
             num_std_dev |-> num_std_dev, days |-> days]]

\* the dictionary of get_all_std_deviation_alerts, its key
\* f"std_dev_{num_std}_{days}d" written <<days, num_std>>
get_all_std_deviation_alerts(tbl, hist) ==
    [key \in Periods \X StdLevels |->
        get_products_below_std_deviation(tbl, hist, key[1], key[2])]

\* the 2-deviation offers as run_daily_update reports and counts them: the
\* lists of the three windows, one after the other
exceptional_offers(std_dev_alerts) ==
    std_dev_alerts[<<30, 2>>] \o std_dev_alerts[<<90, 2>>]
        \o std_dev_alerts[<<180, 2>>]

NoAnalysis == <<>>

get_product_std_analysis(tbl, hist, product_id) ==
    IF product_id \notin DOMAIN tbl THEN NoAnalysis
    ELSE IF ~Truthy(tbl[product_id].current_price) THEN NoAnalysis
    ELSE LET product == tbl[product_id]
             period(days) ==
                 LET stats == get_std_deviation(hist, product_id, days)
                 IN  IF stats = NoStats THEN NoStats
                     ELSE [avg_price |-> stats.avg, std_deviation |-> stats.std,
                           threshold_1_std |-> stats.avg - stats.std,
                           threshold_2_std |-> stats.avg - stats.std * 2,
                           is_below_1_std |->
                               product.current_price <= stats.avg - stats.std,
                           is_below_2_std |->
                               product.current_price <= stats.avg - stats.std * 2]
         IN  [product |-> product_id,
              periods |-> [days \in Periods |-> period(days)]]

-----------------------------------------------------------------------------
(* The statistics over a history that grows and ages *)

MaxRecordings == 2  \* price updates recorded after the products were added
MaxAge == 120       \* days the oldest observation may reach
DayStep == 30       \* days that pass in one step of the clock

InitialObservations == 3    \* observations each product starts with

StatsPrices == {900, InitialPrice, InitialPrice + 1}

InitStats ==
    /\ NoBatch
    /\ products = [i \in 1..MaxProducts |-> ProductRow(i, "zaffari", TRUE)]
    /\ history = [i \in 1..(MaxProducts * InitialObservations) |->
                    [product_id |-> ((i - 1) \div InitialObservations) + 1,
                     price |-> InitialPrice,
                     was_available |-> TRUE, age |-> 0]]
    /\ call = <<>> /\ requests = 0 /\ delays = 0 /\ query = <<>>
    /\ next_id = Len(products) + 1 /\ alerts = <<>>

\* update_product_price on a page that shows a price
RecordPrice ==
    /\ query = <<>>
    /\ Len(history) < MaxProducts * InitialObservations + MaxRecordings
    /\ \E id \in DOMAIN products, p \in StatsPrices :
        \E r \in {update_product_price(products, history, id,
                                       Env("ok", GoodPage(p), NoApi))} :
            /\ products' = r.products
            /\ history' = r.history
            /\ requests' = requests + r.requests
            /\ delays' = delays + r.delays
    /\ UNCHANGED <<next_id, alerts, pc, scraper, queue, idx, attempt, updated, failed, results,
                   log, call, query>>

\* NOW() moves on: every observation is DayStep days older
Tick ==
    /\ query = <<>>
    /\ \A i \in 1..Len(history) : history[i].age + DayStep <= MaxAge
    /\ history' = [i \in 1..Len(history) |->
                      [history[i] EXCEPT !.age = @ + DayStep]]
    /\ UNCHANGED <<next_id, alerts, pc, scraper, queue, idx, attempt, updated, failed, results,
                   log, products, call, requests, delays, query>>

Answer(op, id, days, level, result) ==
    /\ query = <<>>
    /\ query' = <<[op |-> op, id |-> id, days |-> days, level |-> level,
                   result |-> result]>>
    /\ UNCHANGED <<next_id, alerts, pc, scraper, queue, idx, attempt, updated, failed, results,
                   log, products, history, call, requests, delays>>

GetStdDeviation ==
    \E id \in DOMAIN products, days \in Periods :
        Answer("get_std_deviation", id, days, 0,
               get_std_deviation(history, id, days))

GetProductsBelowStdDeviation ==
    \E days \in Periods, num_std_dev \in StdLevels :
        Answer("get_products_below_std_deviation", 0, days, num_std_dev,
               get_products_below_std_deviation(products, history, days,
                                                num_std_dev))

GetProductStdAnalysis ==
    \E id \in DOMAIN products :
        Answer("get_product_std_analysis", id, 0, 0,
               get_product_std_analysis(products, history, id))

GetAllStdDeviationAlerts ==
    Answer("get_all_std_deviation_alerts", 0, 0, 0,
           get_all_std_deviation_alerts(products, history))

NextStats ==
    \/ RecordPrice
    \/ Tick
    \/ GetStdDeviation
    \/ GetProductsBelowStdDeviation
    \/ GetProductStdAnalysis
    \/ GetAllStdDeviationAlerts

SpecStats == InitStats /\ [][NextStats]_vars

-----------------------------------------------------------------------------
(* Store detection, URL validation and SKU extraction, on any URL *)

NetlocMentions(netloc, word) ==
    \/ word = "zaffari" /\ netloc \in ZaffariNetlocs \cup {"[www.zaffari.com.br"}
    \/ word = "carrefour" /\ netloc \in CarrefourNetlocs

\* `word in url.lower()`: the host or a path segment spells the word
Mentions(url, word) ==
    \/ NetlocMentions(url.netloc, word)
    \/ \E i \in 1..Len(url.segs) : url.segs[i].slug = word

MsgUnrecognized == <<"URL", "nao", "reconhecida", ":", "<url>">>

\* Store.from_url: [raised, exc, store]
from_url(url) ==
    IF Mentions(url, "carrefour")
    THEN [raised |-> FALSE, exc |-> NoError, store |-> "carrefour"]
    ELSE IF Mentions(url, "zaffari")
    THEN [raised |-> FALSE, exc |-> NoError, store |-> "zaffari"]
    ELSE [raised |-> TRUE, exc |-> MsgUnrecognized, store |-> NoTitle]

_get_scraper(store) ==
    IF store = "carrefour" THEN "carrefour_scraper" ELSE "zaffari_scraper"

validate_zaffari_url(url) ==
    ParsedNetloc(url) \in ZaffariNetlocs /\ PathHasSlashP(url)

validate_carrefour_url(url) ==
    ParsedNetloc(url) \in CarrefourNetlocs /\ PathHasSlashP(url)

\* helpers.validate_product_url: [raised, exc, valid, store]
validate_product_url(url) ==
    IF UrlparseRaises(url)
    THEN [raised |-> TRUE, exc |-> MsgInvalidIPv6, valid |-> FALSE,
          store |-> NoTitle]
    ELSE IF validate_zaffari_url(url)
    THEN [raised |-> FALSE, exc |-> NoError, valid |-> TRUE, store |-> "zaffari"]
    ELSE IF validate_carrefour_url(url)
    THEN [raised |-> FALSE, exc |-> NoError, valid |-> TRUE,
          store |-> "carrefour"]
    ELSE [raised |-> FALSE, exc |-> NoError, valid |-> FALSE, store |-> NoTitle]

\* helpers.extract_sku_from_url: the two searches of the scrapers' extract_sku
extract_sku_from_url(url) ==
    IF DashDigitsAt(url) # {} THEN url.segs[MinOf(DashDigitsAt(url))].digits
    ELSE IF SlashDigitsAt(url) # {} THEN url.segs[MinOf(SlashDigitsAt(url))].digits
    ELSE NoTitle

MaxSegs == 2

UrlSchemes == {"https", ""}
UrlNetlocs ==
    ZaffariNetlocs \cup CarrefourNetlocs \cup BracketNetlocs \cup {"example.com"}
UrlSlugs == {"queijo", "carrefour", "zaffari", "p", "produto", ""}
UrlDigits == {"", "111", "222"}
UrlSegs == {Seg(slug, digits) : slug \in UrlSlugs, digits \in UrlDigits}
               \ {Seg("", "")}

\* a caller holds a URL string; queue[1] is that URL
InitUrl ==
    /\ pc = "idle" /\ scraper = "" /\ idx = 0 /\ attempt = 0
    /\ updated = <<>> /\ failed = <<>> /\ results = <<>> /\ log = <<>>
    /\ NoTables
    /\ call = <<>> /\ requests = 0 /\ delays = 0 /\ query = <<>>
    /\ next_id = Len(products) + 1 /\ alerts = <<>>
    /\ \E scheme \in UrlSchemes, netloc \in UrlNetlocs,
          segs \in SeqsUpTo(UrlSegs, MaxSegs) :
              queue = <<Url(scheme, netloc, segs)>>

\* add_product's first two lines: _detect_store, then _get_scraper
DetectStore ==
    LET store == from_url(queue[1])
    IN  Answer("from_url", 0, 0, 0,
               [raised |-> store.raised, exc |-> store.exc,
                store |-> store.store,
                scraper |-> IF store.raised THEN ""
                            ELSE _get_scraper(store.store)])

ValidateProductUrl ==
    Answer("validate_product_url", 0, 0, 0, validate_product_url(queue[1]))

ExtractSkuFromUrl ==
    Answer("extract_sku_from_url", 0, 0, 0, extract_sku_from_url(queue[1]))

ZaffariExtractSku ==
    Answer("ZaffariScraper.extract_sku", 0, 0, 0, extract_sku(queue[1]))

CarrefourExtractSku ==
    Answer("CarrefourScraper.extract_sku", 0, 0, 0, extract_sku(queue[1]))

NextUrl ==
    \/ DetectStore
    \/ ValidateProductUrl
    \/ ExtractSkuFromUrl
    \/ ZaffariExtractSku
    \/ CarrefourExtractSku

SpecUrl == InitUrl /\ [][NextUrl]_vars

-----------------------------------------------------------------------------
(* Price texts.  A text is the sequence of its characters.  A Decimal is    *)
(* [int, frac], the digits before and after the point without leading and  *)
(* trailing zeros, so that two Decimals are equal when their values are;    *)
(* NoDecimal is Python's None.                                              *)

DigitChars == {"0", "1", "2", "3", "4", "5", "6", "7", "8", "9"}

NoDecimal == <<>>

Has(text, c) == \E i \in 1..Len(text) : text[i] = c

\* text.replace(c, '')
Without(text, c) == SelectSeq(text, LAMBDA x : x # c)

\* text.replace(c, d)
Replace(text, c, d) == [i \in 1..Len(text) |-> IF text[i] = c THEN d ELSE text[i]]

\* text.rfind(c), counted from 1; 0 when c does not occur
RFind(text, c) ==
    IF Has(text, c) THEN MaxOf({i \in 1..Len(text) : text[i] = c}) ELSE 0

\* text.split(c)
RECURSIVE Split(_, _)
Split(text, c) ==
    IF ~Has(text, c) THEN <<text>>
    ELSE LET i == MinOf({j \in 1..Len(text) : text[j] = c})
         IN  <<SubSeq(text, 1, i - 1)>> \o Split(SubSeq(text, i + 1, Len(text)), c)

\* text.strip()
RECURSIVE Strip(_)
Strip(text) ==
    IF text = <<>> THEN text
    ELSE IF Head(text) = " " THEN Strip(Tail(text))
    ELSE IF text[Len(text)] = " " THEN Strip(SubSeq(text, 1, Len(text) - 1))
    ELSE text

RECURSIVE StripLeadingZeros(_)
StripLeadingZeros(digits) ==
    IF digits # <<>> /\ Head(digits) = "0" THEN StripLeadingZeros(Tail(digits))
    ELSE digits

RECURSIVE StripTrailingZeros(_)
StripTrailingZeros(digits) ==
    IF digits # <<>> /\ digits[Len(digits)] = "0"
    THEN StripTrailingZeros(SubSeq(digits, 1, Len(digits) - 1))
    ELSE digits

\* Decimal(text) for a text without sign and exponent: digits with at most
\* one point and at least one digit; anything else raises InvalidOperation,
\* which every caller turns into None
Decimal(text) ==
    LET parts == Split(text, ".")
        IsDigits(t) == \A i \in 1..Len(t) : t[i] \in DigitChars
    IN  IF Len(parts) > 2 THEN NoDecimal
        ELSE IF ~\A k \in 1..Len(parts) : IsDigits(parts[k]) THEN NoDecimal
        ELSE IF \A k \in 1..Len(parts) : parts[k] = <<>> THEN NoDecimal
        ELSE [int |-> StripLeadingZeros(parts[1]),
              frac |-> IF Len(parts) = 2 THEN StripTrailingZeros(parts[2])
                       ELSE <<>>]

\* re.sub(r'[^\d.,]', '', text)
NumericOnly(text) ==
    SelectSeq(text, LAMBDA x : x \in DigitChars \cup {".", ","})

\* ZaffariScraper._parse_price
Zaffari_parse_price(price_text) ==
    IF price_text = <<>> THEN NoDecimal
    ELSE LET text == NumericOnly(Strip(price_text))
             parts == Split(text, ".")
         IN  IF text = <<>> THEN NoDecimal
             ELSE IF Has(text, ",") /\ Has(text, ".")
             THEN Decimal(Replace(Without(text, "."), ",", "."))
             ELSE IF Has(text, ",")
             THEN Decimal(Replace(text, ",", "."))
             ELSE IF Has(text, ".") /\ Len(parts) = 2 /\ Len(parts[2]) = 3
             THEN Decimal(Without(text, "."))
             ELSE Decimal(text)

\* CarrefourScraper._parse_price
Carrefour_parse_price(price_text) ==
    IF price_text = <<>> THEN NoDecimal
    ELSE LET text == NumericOnly(Strip(price_text))
             parts == Split(text, ".")
         IN  IF text = <<>> THEN NoDecimal
             ELSE IF Has(text, ",") /\ Has(text, ".")
             THEN Decimal(Replace(Without(text, "."), ",", "."))
             ELSE IF Has(text, ",")
             THEN Decimal(Replace(text, ",", "."))
             ELSE IF Has(text, ".") /\ (Len(parts) = 2 /\ Len(parts[2]) = 3)
             THEN Decimal(Without(text, "."))
             ELSE Decimal(text)

\* the "39.600" handling of AmazonScraper._parse_price on a text with a point
AmazonDotRule(text, stripThousands) ==
    LET parts == Split(text, ".")
        before_dot == parts[1]
        after_dot == parts[2]
    IN  IF Len(parts) # 2 THEN text
        ELSE IF Len(after_dot) = 3 /\ Len(before_dot) <= 3
        THEN before_dot \o <<".">> \o SubSeq(after_dot, 1, 2)
        ELSE IF Len(after_dot) = 3 /\ stripThousands
        THEN Without(text, ".")
        ELSE text

\* AmazonScraper._parse_price
Amazon_parse_price(price_text) ==
    IF price_text = <<>> THEN NoDecimal
    ELSE LET text == NumericOnly(Strip(price_text))
         IN  IF text = <<>> THEN NoDecimal
             ELSE IF Has(text, ",") /\ Has(text, ".")
             THEN Decimal(Replace(Without(text, "."), ",", "."))
             ELSE IF Has(text, ",")
             THEN Decimal(AmazonDotRule(Replace(text, ",", "."), FALSE))
             ELSE IF Has(text, ".")
             THEN Decimal(AmazonDotRule(text, TRUE))
             ELSE Decimal(text)

\* a parse_price that takes the point for the decimal separator whenever
\* both separators occur
parse_price_point_decimal(price_str) ==
    IF price_str = <<>> THEN NoDecimal
    ELSE LET cleaned == Without(Without(Without(Strip(price_str), "R"), "$"), " ")
         IN  IF cleaned = <<>> THEN NoDecimal
             ELSE IF Head(cleaned) \in {",", "."} THEN NoDecimal
             ELSE IF Has(cleaned, ",") /\ Has(cleaned, ".")
             THEN Decimal(Without(cleaned, ","))
             ELSE IF Has(cleaned, ",")
             THEN Decimal(Replace(cleaned, ",", "."))
             ELSE Decimal(cleaned)

\* helpers.parse_price
parse_price(price_str) ==
    IF price_str = <<>> THEN NoDecimal
    ELSE LET cleaned == Without(Without(Without(Strip(price_str), "R"), "$"), " ")
         IN  IF cleaned = <<>> THEN NoDecimal
             ELSE IF Head(cleaned) \in {",", "."} THEN NoDecimal
             ELSE IF Has(cleaned, ",") /\ Has(cleaned, ".")
             THEN IF RFind(cleaned, ",") > RFind(cleaned, ".")
                  THEN Decimal(Replace(Without(cleaned, "."), ",", "."))
                  ELSE Decimal(Without(cleaned, ","))
             ELSE IF Has(cleaned, ",")
             THEN Decimal(Replace(cleaned, ",", "."))
             ELSE Decimal(cleaned)

-----------------------------------------------------------------------------
(* The normalizers on any price text: digit runs joined by points and      *)
(* commas, after an optional currency prefix                               *)

MaxSeps == 2

Prefixes == {<<>>, <<"R", "$">>, <<"R", "$", " ">>}
DigitRuns ==
    {<<"1">>, <<"3", "9">>, <<"6", "0">>, <<"2", "3", "4">>, <<"6", "0", "0">>,
     <<"1", "2", "3", "4">>}
Separators == {".", ","}

RECURSIVE Join(_, _)
Join(runs, seps) ==
    IF Len(runs) = 1 THEN runs[1]
    ELSE runs[1] \o <<seps[1]>> \o Join(Tail(runs), Tail(seps))

\* a caller holds a price text; queue[1] is that text
InitPrice ==
    /\ pc = "idle" /\ scraper = "" /\ idx = 0 /\ attempt = 0
    /\ updated = <<>> /\ failed = <<>> /\ results = <<>> /\ log = <<>>
    /\ NoTables
    /\ call = <<>> /\ requests = 0 /\ delays = 0 /\ query = <<>>
    /\ next_id = Len(products) + 1 /\ alerts = <<>>
    /\ \E prefix \in Prefixes, n \in 0..MaxSeps :
          \E runs \in [1..(n + 1) -> DigitRuns], seps \in [1..n -> Separators] :
              queue = <<prefix \o Join(runs, seps)>>

ZaffariParsePrice ==
    Answer("ZaffariScraper._parse_price", 0, 0, 0, Zaffari_parse_price(queue[1]))

CarrefourParsePrice ==
    Answer("CarrefourScraper._parse_price", 0, 0, 0,
           Carrefour_parse_price(queue[1]))

AmazonParsePrice ==
    Answer("AmazonScraper._parse_price", 0, 0, 0, Amazon_parse_price(queue[1]))

ParsePrice ==
    Answer("parse_price", 0, 0, 0, parse_price(queue[1]))

\* str(value) of a Decimal, written without trailing zeros
DecimalText(value) ==
    (IF value.int = <<>> THEN <<"0">> ELSE value.int)
        \o (IF value.frac = <<>> THEN <<>> ELSE <<".">> \o value.frac)

Normalize(op, text) ==
    CASE op = "ZaffariScraper._parse_price" -> Zaffari_parse_price(text)
      [] op = "CarrefourScraper._parse_price" -> Carrefour_parse_price(text)
      [] op = "AmazonScraper._parse_price" -> Amazon_parse_price(text)
      [] op = "parse_price" -> parse_price(text)

\* the caller gives the text of the value it got back to the same normalizer
Renormalize ==
    /\ Len(query) = 1
    /\ query[1].result # NoDecimal
    /\ query' = Append(query,
                       [op |-> query[1].op, id |-> 0, days |-> 0, level |-> 0,
                        result |-> Normalize(query[1].op,
                                             DecimalText(query[1].result))])
    /\ UNCHANGED <<next_id, alerts, pc, scraper, queue, idx, attempt, updated, failed, results,
                   log, products, history, call, requests, delays>>

NextPrice ==
    \/ ZaffariParsePrice
    \/ CarrefourParsePrice
    \/ AmazonParsePrice
    \/ ParsePrice
    \/ Renormalize

SpecPrice == InitPrice /\ [][NextPrice]_vars

-----------------------------------------------------------------------------
(* ProductService: add_product, activation and deletion.  The products     *)
(* table is a function from the ids in use to rows.                        *)

MsgFalhaBuscar == <<"Falha", "ao", "buscar", "produto", ":">>

MsgNoTitleAdd ==
    <<"Nao", "foi", "possivel", "extrair", "o", "titulo", "do", "produto", ".">>

NoProduct == 0

\* a get_product_by_sku that does not see deactivated rows
get_product_by_sku_active(tbl, sku, store) ==
    LET found == {i \in DOMAIN tbl :
                     tbl[i].asin = sku /\ tbl[i].store = store /\ tbl[i].is_active}
    IN  IF found = {} THEN NoProduct ELSE MinOf(found)

\* get_product_by_sku(sku, store): the id of the first row with that asin and
\* store (the lowest id), NoProduct when there is none
get_product_by_sku(tbl, sku, store) ==
    LET found == {i \in DOMAIN tbl : tbl[i].asin = sku /\ tbl[i].store = store}
    IN  IF found = {} THEN NoProduct ELSE MinOf(found)

_reactivate_product(tbl, product_id) ==
    [tbl EXCEPT ![product_id] = [@ EXCEPT !.is_active = TRUE]]

\* an _update_current_price that leaves the price history alone
_update_current_price_only(tbl, hist, product_id, price) ==
    [products |->
         [tbl EXCEPT ![product_id] =
             [@ EXCEPT !.current_price = price,
                       !.lowest_price = MinPrice(@, price),
                       !.highest_price = MaxPrice(@, price)]],
     history |-> hist]

\* [products, history] after _update_current_price
_update_current_price(tbl, hist, product_id, price) ==
    IF product_id \notin DOMAIN tbl THEN [products |-> tbl, history |-> hist]
    ELSE LET product == tbl[product_id]
             new_lowest ==
                 MinPrice(IF Truthy(product.lowest_price) THEN product.lowest_price
                          ELSE price, price)
             new_highest ==
                 MaxPrice(IF Truthy(product.highest_price) THEN product.highest_price
                          ELSE price, price)
         IN  [products |->
                  [tbl EXCEPT ![product_id] =
                      [@ EXCEPT !.current_price = price,
                                !.lowest_price = new_lowest,
                                !.highest_price = new_highest]],
              history |-> _record_price_history(hist, product_id, price, TRUE)]

\* add_product, given the answers of _detect_store (store) and of
\* scraper.scrape_product (ans)
add_product_from(tbl, hist, nid, store, ans) ==
    LET scraped == ans.rec
        raise(exc, nreq, ndelay) ==
            [kind |-> "raise", exc |-> exc, id |-> NoProduct, scraped |-> scraped,
             products |-> tbl, history |-> hist, next_id |-> nid,
             requests |-> nreq, delays |-> ndelay]
        existing == get_product_by_sku(tbl, scraped.sku, store.store)
        repriced == _update_current_price(_reactivate_product(tbl, existing),
                                          hist, existing, scraped.price)
        row == [id |-> nid, asin |-> scraped.sku, url |-> scraped.url,
                title |-> scraped.title, store |-> store.store,
                current_price |-> scraped.price, lowest_price |-> scraped.price,
                highest_price |-> scraped.price, is_active |-> TRUE]
    IN  IF store.raised THEN raise(store.exc, 0, 0)
        ELSE IF ans.raised THEN raise(ans.exc, ans.requests, ans.delays)
        ELSE IF scraped.error # NoError
        THEN raise(MsgFalhaBuscar \o scraped.error, ans.requests, ans.delays)
        ELSE IF ~TruthyStr(scraped.title)
        THEN raise(MsgNoTitleAdd, ans.requests, ans.delays)
        ELSE IF ~Truthy(scraped.price)
        THEN raise(MsgNoPriceUpdate, ans.requests, ans.delays)
        ELSE IF existing # NoProduct
        THEN [kind |-> "ok", exc |-> NoError, id |-> existing, scraped |-> scraped,
              products |-> repriced.products, history |-> repriced.history,
              next_id |-> nid, requests |-> ans.requests, delays |-> ans.delays]
        ELSE [kind |-> "ok", exc |-> NoError, id |-> nid, scraped |-> scraped,
              products |-> [i \in DOMAIN tbl \cup {nid} |->
                               IF i = nid THEN row ELSE tbl[i]],
              history |-> _record_price_history(hist, nid, scraped.price,
                                                scraped.is_available),
              next_id |-> nid + 1,
              requests |-> ans.requests, delays |-> ans.delays]

\* [kind, exc, id, scraped, products, history, next_id, requests, delays]:
\* kind "raise" (raised ValueError(exc)) or "ok" (returned the product id)
add_product(tbl, hist, nid, url, env) ==
    CHOOSE r \in UNION {
        {add_product_from(tbl, hist, nid, store, ans) :
            ans \in {scrape_product(
                        IF _get_scraper(store.store) = "carrefour_scraper"
                        THEN "carrefour" ELSE "zaffari", url, env)}} :
        store \in {from_url(url)}} : TRUE

deactivate_product(tbl, product_id) ==
    [i \in DOMAIN tbl |->
        IF i = product_id THEN [tbl[i] EXCEPT !.is_active = FALSE] ELSE tbl[i]]

activate_product(tbl, product_id) ==
    [i \in DOMAIN tbl |->
        IF i = product_id THEN [tbl[i] EXCEPT !.is_active = TRUE] ELSE tbl[i]]

\* what the store does to price_history when a products row is deleted: the
\* rows that reference it go with it ("Delete a product and all its history")
price_history_on_delete(hist, product_id) ==
    SelectSeq(hist, LAMBDA row : row.product_id # product_id)

\* [products, history] after delete_product
delete_product(tbl, hist, product_id) ==
    [products |-> [i \in DOMAIN tbl \ {product_id} |-> tbl[i]],
     history |-> price_history_on_delete(hist, product_id)]

-----------------------------------------------------------------------------
(* The product service over tables that start empty.  call[1] is the last  *)
(* operation: [op, id, url, kind, exc, scraped]; id, url and scraped are    *)
(* kept of a successful add_product or update_product_price only.  The     *)
(* request and sleep counters are not followed here.                       *)

MaxHistory == 2     \* rows of price_history

\* a page that shows a price and an "unavailable" element
UnavailablePage(p) ==
    Page("Queijo Mussarela", [i \in 1..MaxSelectors |-> IF i = 1 THEN p ELSE None],
         <<>>, NoPatterns, TRUE, FALSE)

ServiceEnvs ==
    {Env("ok", GoodPage(900), NoApi), Env("ok", UnavailablePage(1100), NoApi),
     Env("ok", PricelessPage("Queijo Mussarela"), NoApi),
     Env("timeout", BlankPage, NoApi)}

\* a Carrefour product URL, two Zaffari URLs without digits before /p, and a
\* URL of neither store
ServiceUrls ==
    {CarrefourUrl,
     Url("https", "www.zaffari.com.br", <<Seg("queijo", ""), Seg("p", "")>>),
     Url("https", "www.zaffari.com.br", <<Seg("leite", ""), Seg("p", "")>>),
     Url("https", "example.com", <<Seg("queijo", "1"), Seg("p", "")>>)}

LastCall(op, id, url, kind, exc, scraped) ==
    <<[op |-> op, id |-> id, url |-> url, kind |-> kind, exc |-> exc,
       scraped |-> scraped]>>

NoUrl == Url("", "", <<>>)

NoScrape == ScrapedProduct("", NoUrl, NoTitle, None, FALSE, NoError)

InitService ==
    /\ NoBatch /\ NoTables
    /\ call = <<>> /\ requests = 0 /\ delays = 0 /\ query = <<>>
    /\ next_id = Len(products) + 1 /\ alerts = <<>>

AddProduct ==
    /\ pc = "idle"
    /\ \E url \in ServiceUrls, env \in ServiceEnvs :
        \E r \in {add_product(products, history, next_id, url, env)} :
            /\ Len(r.history) <= MaxHistory
            /\ r.next_id <= MaxProducts + 1
            /\ products' = r.products
            /\ history' = r.history
            /\ next_id' = r.next_id
            /\ call' = IF r.kind = "ok"
                        THEN LastCall("add_product", r.id, url, r.kind, r.exc,
                                      r.scraped)
                        ELSE LastCall("add_product", NoProduct, NoUrl, r.kind,
                                      r.exc, NoScrape)
    /\ UNCHANGED <<pc, scraper, queue, idx, attempt, updated, failed, results,
                   log, requests, delays, query, alerts>>

UpdateProductPrice ==
    /\ pc = "idle"
    /\ \E id \in 1..MaxProducts, env \in ServiceEnvs :
        \E r \in {update_product_price(products, history, id, env)} :
            /\ Len(r.history) <= MaxHistory
            /\ products' = r.products
            /\ history' = r.history
            /\ call' = IF r.kind = "ok"
                        THEN LastCall("update_product_price", id, NoUrl, r.kind,
                                      r.exc,
                                      scrape_product(products[id].store,
                                                     products[id].url, env).rec)
                        ELSE LastCall("update_product_price", NoProduct, NoUrl,
                                      r.kind, r.exc, NoScrape)
    /\ UNCHANGED <<pc, scraper, queue, idx, attempt, updated, failed, results,
                   log, requests, delays, query, next_id, alerts>>

DeactivateProduct ==
    /\ pc = "idle"
    /\ \E id \in 1..MaxProducts :
        /\ products' = deactivate_product(products, id)
        /\ call' = LastCall("deactivate_product", NoProduct, NoUrl, "ok", NoError, NoScrape)
    /\ UNCHANGED <<pc, scraper, queue, idx, attempt, updated, failed, results,
                   log, history, requests, delays, query, next_id, alerts>>

ActivateProduct ==
    /\ pc = "idle"
    /\ \E id \in 1..MaxProducts :
        /\ products' = activate_product(products, id)
        /\ call' = LastCall("activate_product", NoProduct, NoUrl, "ok", NoError, NoScrape)
    /\ UNCHANGED <<pc, scraper, queue, idx, attempt, updated, failed, results,
                   log, history, requests, delays, query, next_id, alerts>>

DeleteProduct ==
    /\ pc = "idle"
    /\ \E id \in 1..MaxProducts :
        \E r \in {delete_product(products, history, id)} :
            /\ products' = r.products
            /\ history' = r.history
            /\ call' = LastCall("delete_product", NoProduct, NoUrl, "ok", NoError, NoScrape)
    /\ UNCHANGED <<pc, scraper, queue, idx, attempt, updated, failed, results,
                   log, requests, delays, query, next_id, alerts>>

NextService ==
    \/ AddProduct
    \/ UpdateProductPrice
    \/ DeactivateProduct
    \/ ActivateProduct
    \/ DeleteProduct

SpecService == InitService /\ [][NextService]_vars

-----------------------------------------------------------------------------
(* AlertService.  An alerts row is [id, product_id, alert_type,            *)
(* threshold_percentage, is_triggered, triggered_price, is_active]; the    *)
(* ids are the positions in the table (AUTO_INCREMENT, no row is deleted). *)
(* The products rows carry a target_price here.                            *)

create_alert(tbl, product_id, alert_type, threshold_percentage) ==
    Append(tbl, [id |-> Len(tbl) + 1, product_id |-> product_id,
                 alert_type |-> alert_type,
                 threshold_percentage |->
                     IF Truthy(threshold_percentage) THEN threshold_percentage
                     ELSE None,
                 is_triggered |-> FALSE, triggered_price |-> None,
                 is_active |-> TRUE])

trigger_alert(tbl, alert_id, triggered_price) ==
    [i \in DOMAIN tbl |->
        IF i = alert_id
        THEN [tbl[i] EXCEPT !.is_triggered = TRUE,
                            !.triggered_price = triggered_price]
        ELSE tbl[i]]

reset_alert(tbl, alert_id) ==
    [i \in DOMAIN tbl |->
        IF i = alert_id
        THEN [tbl[i] EXCEPT !.is_triggered = FALSE, !.triggered_price = None]
        ELSE tbl[i]]

deactivate_alert(tbl, alert_id) ==
    [i \in DOMAIN tbl |->
        IF i = alert_id THEN [tbl[i] EXCEPT !.is_active = FALSE] ELSE tbl[i]]

\* get_alerts_for_product(product_id): the active alerts of the product,
\* ORDER BY created_at DESC
get_alerts_for_product(tbl, product_id) ==
    LET ids == Reverse(SortedIds({a \in DOMAIN tbl :
                                     /\ tbl[a].product_id = product_id
                                     /\ tbl[a].is_active}))
    IN  [k \in 1..Len(ids) |-> tbl[ids[k]]]

\* a check that does not look at is_triggered
alert_is_skipped_never(alert) == FALSE

\* `if alert.is_triggered: continue`
alert_is_skipped(alert) == alert.is_triggered

\* should_trigger of check_alerts; the price-drop threshold is
\* highest_price * (1 - threshold_percentage / 100)
should_trigger(alert, product) ==
    CASE alert.alert_type = "target_reached" ->
             product.current_price <= product.target_price
      [] alert.alert_type = "price_drop" ->
             /\ Truthy(alert.threshold_percentage)
             /\ Truthy(product.highest_price)
             /\ product.current_price * 100
                    <= product.highest_price * (100 - alert.threshold_percentage)
      [] OTHER -> FALSE

\* the inner loop of check_alerts over the alerts fetched for one product:
\* [alerts, newly_triggered]
RECURSIVE check_product_alerts(_, _, _, _)
check_product_alerts(tbl, product, fetched, newly) ==
    IF fetched = <<>> THEN [alerts |-> tbl, newly_triggered |-> newly]
    ELSE LET alert == Head(fetched)
         IN  IF ~alert_is_skipped(alert) /\ should_trigger(alert, product)
             THEN check_product_alerts(
                      trigger_alert(tbl, alert.id, product.current_price),
                      product, Tail(fetched),
                      Append(newly, [alert |-> alert.id, product |-> product.id,
                                     triggered_price |-> product.current_price]))
             ELSE check_product_alerts(tbl, product, Tail(fetched), newly)

\* check_alerts(products): [alerts, newly_triggered]
RECURSIVE check_alerts(_, _, _)
check_alerts(tbl, prods, newly) ==
    IF prods = <<>> THEN [alerts |-> tbl, newly_triggered |-> newly]
    ELSE LET product == Head(prods)
             r == IF ~Truthy(product.current_price)
                  THEN [alerts |-> tbl, newly_triggered |-> newly]
                  ELSE check_product_alerts(
                           tbl, product,
                           get_alerts_for_product(tbl, product.id), newly)
         IN  check_alerts(r.alerts, Tail(prods), r.newly_triggered)

\* the rows of check_target_alerts' query that have an alert: the active
\* target_reached alerts of the active products whose current price is at
\* or below the target price
target_rows(tbl, prods) ==
    {a \in DOMAIN tbl :
        /\ tbl[a].alert_type = "target_reached"
        /\ tbl[a].is_active
        /\ tbl[a].product_id \in DOMAIN prods
        /\ prods[tbl[a].product_id].is_active
        /\ prods[tbl[a].product_id].current_price # None
        /\ prods[tbl[a].product_id].current_price
              <= prods[tbl[a].product_id].target_price}

\* check_target_alerts: [alerts, is_new], is_new being the alerts of the rows
\* returned with is_new True.  The rows are read before the loop;
\* `row.get('alert_triggered') is False` holds for a row of an untriggered
\* alert only if the driver hands the column over as a bool (as_bool).
check_target_alerts(tbl, prods, as_bool) ==
    [alerts |->
        [i \in DOMAIN tbl |->
            IF i \in target_rows(tbl, prods) /\ ~tbl[i].is_triggered
            THEN trigger_alert(tbl, i, prods[tbl[i].product_id].current_price)[i]
            ELSE tbl[i]],
     is_new |-> {a \in target_rows(tbl, prods) : as_bool /\ ~tbl[a].is_triggered}]

-----------------------------------------------------------------------------
(* The alert service over stored products whose prices change.  log holds  *)
(* the alerts reported as newly triggered since their last reset.          *)

MaxAlerts == 1      \* rows of the alerts table
MaxReprices == 1    \* price updates after the products were added

AlertPrices == {InitialPrice - 200, InitialPrice - 100}

TargetPrices == {0, InitialPrice}

DropPercentage == 10   \* threshold_percentage of the price-drop alerts

WithTarget(row, target_price) ==
    [f \in DOMAIN row \cup {"target_price"} |->
        IF f = "target_price" THEN target_price ELSE row[f]]

Report(alert_id, by) == [alert |-> alert_id, by |-> by]

RECURSIVE Reports(_, _)
Reports(newly, by) ==
    IF newly = <<>> THEN <<>>
    ELSE <<Report(Head(newly).alert, by)>> \o Reports(Tail(newly), by)

InitAlerts ==
    /\ NoBatch
    /\ \E target_price \in TargetPrices :
          products = [i \in 1..MaxProducts |->
                         WithTarget(ProductRow(i, "zaffari", TRUE), target_price)]
    /\ history = [i \in 1..MaxProducts |->
                    [product_id |-> i, price |-> InitialPrice,
                     was_available |-> TRUE, age |-> 0]]
    /\ call = <<>> /\ requests = 0 /\ delays = 0 /\ query = <<>>
    /\ next_id = Len(products) + 1 /\ alerts = <<>>

CreateAlert ==
    /\ Len(alerts) < MaxAlerts
    /\ \E product_id \in DOMAIN products,
          kind \in {<<"target_reached", None>>, <<"price_drop", DropPercentage>>} :
          alerts' = create_alert(alerts, product_id, kind[1], kind[2])
    /\ UNCHANGED <<pc, scraper, queue, idx, attempt, updated, failed, results,
                   log, products, history, call, requests, delays, query,
                   next_id>>

\* update_product_price on a page that shows a lower price
Reprice ==
    /\ Len(history) < MaxProducts + MaxReprices
    /\ \E id \in DOMAIN products, p \in AlertPrices :
        \E r \in {update_product_price(products, history, id,
                                       Env("ok", GoodPage(p), NoApi))} :
            /\ products' = r.products
            /\ history' = r.history
    /\ UNCHANGED <<pc, scraper, queue, idx, attempt, updated, failed, results,
                   log, call, requests, delays, query, next_id, alerts>>

\* check_alerts on freshly read products
CheckAlerts ==
    /\ \E S \in SUBSET DOMAIN products :
        \E r \in {check_alerts(alerts,
                                [k \in 1..Cardinality(S) |->
                                    products[SortedIds(S)[k]]], <<>>)} :
            /\ S # {}
            /\ alerts' = r.alerts
            /\ log' = log \o Reports(r.newly_triggered, "check_alerts")
    /\ UNCHANGED <<pc, scraper, queue, idx, attempt, updated, failed, results,
                   products, history, call, requests, delays, query, next_id>>

CheckTargetAlerts ==
    /\ \E as_bool \in BOOLEAN :
        \E r \in {check_target_alerts(alerts, products, as_bool)} :
            /\ alerts' = r.alerts
            /\ log' = log \o [k \in 1..Cardinality(r.is_new) |->
                                  Report(SortedIds(r.is_new)[k],
                                         "check_target_alerts")]
    /\ UNCHANGED <<pc, scraper, queue, idx, attempt, updated, failed, results,
                   products, history, call, requests, delays, query, next_id>>

ResetAlert ==
    /\ \E alert_id \in DOMAIN alerts :
          /\ alerts' = reset_alert(alerts, alert_id)
          /\ log' = SelectSeq(log, LAMBDA e : e.alert # alert_id)
    /\ UNCHANGED <<pc, scraper, queue, idx, attempt, updated, failed, results,
                   products, history, call, requests, delays, query, next_id>>

DeactivateAlert ==
    /\ \E alert_id \in DOMAIN alerts :
          alerts' = deactivate_alert(alerts, alert_id)
    /\ UNCHANGED <<pc, scraper, queue, idx, attempt, updated, failed, results,
                   log, products, history, call, requests, delays, query,
                   next_id>>

NextAlerts ==
    \/ CreateAlert
    \/ Reprice
    \/ CheckAlerts
    \/ CheckTargetAlerts
    \/ ResetAlert
    \/ DeactivateAlert

SpecAlerts == InitAlerts /\ [][NextAlerts]_vars

-----------------------------------------------------------------------------
(* Claims about the batch operations, checked under SpecBatch *)

Entries(id) == {i \in 1..Len(log) : log[i].id = id}
BlockedEntry(i) == log[i].kind = "raise" /\ IsBlocked(log[i].exc)
InFailed(id) == \E k \in 1..Len(failed) : failed[k].id = id
InUpdated(id) == \E k \in 1..Len(updated) : updated[k] = id
Last(i) == i = Len(log)

\* C1: in update_all_prices an attempt that ends blocked on the first try is
\* followed by the backoff sleep and by exactly one more attempt on the same
\* product; an attempt that ends blocked on the retry is not slept on, puts
\* the product in failed, and the loop goes on with the next product.
C1_BlockedRetriedOnce ==
    \A i \in 1..Len(log) :
        BlockedEntry(i) =>
            /\ Cardinality(Entries(log[i].id)) <= 2
            /\ log[i].attempt = 0 =>
                  /\ log[i].slept
                  /\ IF Last(i)
                     THEN pc = "update" /\ queue[idx] = log[i].id /\ attempt = 1
                     ELSE log[i + 1].id = log[i].id /\ log[i + 1].attempt = 1
            /\ log[i].attempt = 1 =>
                  /\ ~log[i].slept
                  /\ log[i - 1].id = log[i].id /\ BlockedEntry(i - 1)
                  /\ InFailed(log[i].id) /\ ~InUpdated(log[i].id)
                  /\ IF Last(i)
                     THEN attempt = 0 /\ (idx <= Len(queue) => queue[idx] # log[i].id)
                     ELSE log[i + 1].id # log[i].id /\ log[i + 1].attempt = 0

\* a run in which the first product was blocked twice and failed, and the
\* loop went on to update the second product
C1_Witness ==
    /\ pc = "done" /\ Len(log) = 3
    /\ BlockedEntry(1) /\ log[1].slept /\ BlockedEntry(2) /\ log[2].id = log[1].id
    /\ InFailed(log[1].id)
    /\ log[3].id # log[1].id /\ log[3].kind = "ok" /\ InUpdated(log[3].id)

\* C2: a product whose page fetch fails with HTTP 403 or 503 on the first
\* attempt is classified blocked and slept on, and is recorded failed only
\* after a second attempt.
C2_AntiBotIsRetried ==
    \A i \in 1..Len(log) :
        (log[i].fetch \in {"http403", "http503"} /\ log[i].attempt = 0) =>
            /\ BlockedEntry(i) /\ log[i].slept
            /\ InFailed(log[i].id) => \E j \in Entries(log[i].id) : log[j].attempt = 1

\* C3: no batch operation is cut short by an item: scrape_multiple never
\* ends in an exception, its result list has one record per input URL in
\* input order, and update_all_prices attempts every active product.
C3_EveryItemAttempted ==
    /\ pc # "raised"
    /\ (pc = "done" /\ scraper # "") =>
          /\ Len(results) = Len(queue)
          /\ \A i \in 1..Len(queue) :
                results[i].url \in {queue[i], normalize_url(queue[i])}
    /\ (pc = "done" /\ scraper = "") =>
          \A i \in 1..Len(queue) : Entries(queue[i]) # {}

\* an attempt that is not slept on, is the last one made on its product and
\* puts the product in failed
FailedAtOnce(i) ==
    /\ ~log[i].slept
    /\ \A j \in Entries(log[i].id) : j <= i
    /\ Last(i) => attempt = 0
    /\ InFailed(log[i].id)

\* C4: an attempt that fails on a transport failure (timeout, connection
\* error) is not an anti-bot block: it is not slept on, no further attempt
\* is made on the product, and the product is recorded failed.
C4_TransportFailureNotRetried ==
    \A i \in 1..Len(log) :
        (log[i].kind = "raise" /\ log[i].fetch \in {"timeout", "connerr"}) =>
            FailedAtOnce(i)

-----------------------------------------------------------------------------
(* Claims about the statistics, checked under SpecStats *)

Asked(op) == query # <<>> /\ query[1].op = op

\* the observations of a product no older than `days`, and all of them
Observed(id, days) ==
    {i \in 1..Len(history) : history[i].product_id = id /\ history[i].age <= days}
Recorded(id) == {i \in 1..Len(history) : history[i].product_id = id}

RECURSIVE SumOver(_)
SumOver(I) ==
    IF I = {} THEN 0
    ELSE LET i == CHOOSE i \in I : TRUE
         IN  history[i].price + SumOver(I \ {i})

\* C9: get_std_deviation answers None exactly when fewer than two
\* observations of the product lie in the trailing window, and otherwise a
\* mean that is the mean (to the cent) of the in-window observations alone
\* and a deviation that is zero only if those observations are all equal.
C9_NoneBelowTwoObservations ==
    Asked("get_std_deviation") =>
        LET I == Observed(query[1].id, query[1].days)
            n == Cardinality(I)
            r == query[1].result
        IN  /\ n < 2 => r = NoStats
            /\ n >= 2 =>
                  /\ r # NoStats
                  /\ 2 * (n * r.avg - SumOver(I)) <= n
                  /\ 2 * (SumOver(I) - n * r.avg) <= n
                  /\ r.std >= 0
                  /\ (\A i, j \in I : history[i].price = history[j].price)
                        => r.std = 0

\* the product has two observations and only one in the window asked for:
\* the answer is None
C9_Witness ==
    /\ Asked("get_std_deviation")
    /\ Cardinality(Recorded(query[1].id)) >= 2
    /\ Cardinality(Observed(query[1].id, query[1].days)) = 1
    /\ query[1].result = NoStats

\* every in-window observation of the product equals its current price, and
\* there are at least two of them
Flat(id, days) ==
    /\ Cardinality(Observed(id, days)) >= 2
    /\ \A i \in Observed(id, days) : history[i].price = products[id].current_price

\* C10: a product whose in-window observations all equal its current price
\* (deviation zero) is not listed by get_products_below_std_deviation at
\* either level, and get_product_std_analysis flags it neither below one
\* nor below two deviations.
C10_FlatHistoryIsNoDeal ==
    /\ Asked("get_products_below_std_deviation") =>
          \A k \in 1..Len(query[1].result) :
              ~Flat(query[1].result[k].product, query[1].days)
    /\ Asked("get_product_std_analysis") =>
          \A days \in Periods :
              Flat(query[1].id, days) =>
                  /\ query[1].result # NoAnalysis
                  /\ ~query[1].result.periods[days].is_below_1_std
                  /\ ~query[1].result.periods[days].is_below_2_std

\* the products a list of classifications names
Listed(list) == {list[k].product : k \in 1..Len(list)}

\* C11: in the answer of get_all_std_deviation_alerts every product listed
\* under the 2-deviation key of a window is listed under the 1-deviation key
\* of the same window, and in get_product_std_analysis is_below_2_std implies
\* is_below_1_std for every window that has statistics.
C11_TwoSigmaImpliesOneSigma ==
    /\ Asked("get_all_std_deviation_alerts") =>
          \A days \in Periods :
              Listed(query[1].result[<<days, 2>>])
                  \subseteq Listed(query[1].result[<<days, 1>>])
    /\ (Asked("get_product_std_analysis") /\ query[1].result # NoAnalysis) =>
          \A days \in Periods :
              LET period == query[1].result.periods[days]
              IN  period # NoStats =>
                      (period.is_below_2_std => period.is_below_1_std)

\* a product whose prices vary is listed two deviations below its 30-day mean
C11_Witness ==
    /\ Asked("get_all_std_deviation_alerts")
    /\ \E k \in 1..Len(query[1].result[<<30, 2>>]) :
          query[1].result[<<30, 2>>][k].std_deviation > 0

Margin(entry) == entry.threshold - products[entry.product].current_price

\* C12: the best-deals view built from the 2-deviation classifications of
\* the three windows names each product at most once, keeps for it the
\* classification with the largest margin, and is ordered by margin
\* descending, equal margins by product identifier.
C12_BestDealsDeduplicated ==
    Asked("get_all_std_deviation_alerts") =>
        LET view == exceptional_offers(query[1].result)
        IN  /\ \A i, j \in 1..Len(view) :
                  i # j => view[i].product # view[j].product
            /\ \A i \in 1..Len(view), days \in Periods :
                  \A k \in 1..Len(query[1].result[<<days, 2>>]) :
                      query[1].result[<<days, 2>>][k].product = view[i].product
                          => Margin(query[1].result[<<days, 2>>][k]) <= Margin(view[i])
            /\ \A i, j \in 1..Len(view) :
                  i < j =>
                      \/ Margin(view[i]) > Margin(view[j])
                      \/ /\ Margin(view[i]) = Margin(view[j])
                         /\ view[i].product < view[j].product

\* n*n times the sum of the squared deviations of the observations I from
\* their mean total/n
RECURSIVE SumSquaresOver(_, _, _)
SumSquaresOver(I, n, total) ==
    IF I = {} THEN 0
    ELSE LET i == CHOOSE i \in I : TRUE
             d == n * history[i].price - total
         IN  d * d + SumSquaresOver(I \ {i}, n, total)

\* current price <= mean - k * deviation, mean and deviation unrounded: with
\* S the sum and Q = n*n*sum((p - mean)^2), S - n*current >= k * sqrt(Q / n)
ExactBelow(id, days, k) ==
    LET I == Observed(id, days)
        n == Cardinality(I)
        S == SumOver(I)
        gap == S - n * products[id].current_price
    IN  /\ n >= 2
        /\ Truthy(products[id].current_price)
        /\ gap >= 0
        /\ gap * gap * n >= k * k * SumSquaresOver(I, n, S)

\* C13: rounding the mean and the deviation to two decimals never changes
\* a classification: a product is listed by get_products_below_std_deviation,
\* and flagged by get_product_std_analysis, exactly when its current price
\* is at most the threshold computed from the unrounded mean and deviation.
C13_RoundingNeverFlips ==
    /\ Asked("get_products_below_std_deviation") =>
          \A id \in DOMAIN products :
              id \in Listed(query[1].result)
                  <=> ExactBelow(id, query[1].days, query[1].level)
    /\ (Asked("get_product_std_analysis") /\ query[1].result # NoAnalysis) =>
          \A days \in Periods :
              LET period == query[1].result.periods[days]
              IN  period # NoStats =>
                      /\ period.is_below_1_std <=> ExactBelow(query[1].id, days, 1)
                      /\ period.is_below_2_std <=> ExactBelow(query[1].id, days, 2)

\* C14: the deviation get_std_deviation returns is the population deviation
\* of the n in-window prices (squared deviations divided by n, not n - 1)
\* rounded to the cent, and the mean it returns is the arithmetic mean of
\* exactly those n prices, rounded to the cent.
C14_PopulationDeviation ==
    (Asked("get_std_deviation") /\ query[1].result # NoStats) =>
        LET I == Observed(query[1].id, query[1].days)
            n == Cardinality(I)
            S == SumOver(I)
            Q == SumSquaresOver(I, n, S)
            r == query[1].result
        IN  /\ 2 * (n * r.avg - S) <= n
            /\ 2 * (S - n * r.avg) <= n
            /\ r.std >= 0
            /\ (2 * r.std + 1) * (2 * r.std + 1) * n * n * n >= 4 * Q
            /\ r.std > 0 =>
                  (2 * r.std - 1) * (2 * r.std - 1) * n * n * n <= 4 * Q

\* a statistic over unequal prices: the deviation is positive
C14_Witness ==
    /\ Asked("get_std_deviation")
    /\ query[1].result # NoStats
    /\ query[1].result.std > 0
    /\ Cardinality(Observed(query[1].id, query[1].days)) > 2

\* what an answer of get_products_below_std_deviation says about a product:
\* its entries in the list
EntriesOf(list, id) == {k \in 1..Len(list) : list[k].product = id}

\* C15: for a product with fewer than two observations in the window, the
\* callers of get_std_deviation report an outcome of their own, different
\* from the one of a product that was evaluated and is not a deal:
\* get_product_std_analysis a None period, get_products_below_std_deviation
\* something that tells the product from an evaluated one it does not list.
C15_UndefinedIsExplicit ==
    /\ (Asked("get_product_std_analysis") /\ query[1].result # NoAnalysis) =>
          \A days \in Periods :
              Cardinality(Observed(query[1].id, days)) < 2
                  <=> query[1].result.periods[days] = NoStats
    /\ Asked("get_products_below_std_deviation") =>
          \A a, b \in DOMAIN products :
              ( /\ Cardinality(Observed(a, query[1].days)) < 2
                /\ Cardinality(Observed(b, query[1].days)) >= 2
                /\ b \notin Listed(query[1].result) )
              => EntriesOf(query[1].result, a) # EntriesOf(query[1].result, b)

-----------------------------------------------------------------------------
(* Claims about scrape_product, checked under SpecScrape *)

Called == call # <<>>

\* the URL is not one the store's validate_url accepts: it answers False or
\* fails on it
FailsValidation(store, url) == UrlparseRaises(url) \/ ~validate_url(store, url)

\* C5: for every URL that fails the store's URL validation, scrape_product
\* returns a hard-failure record (error set, no title, no price) and performs
\* no delay, no page fetch and no API call.
C5_InvalidUrlNoNetwork ==
    Called =>
        LET c == call[1]
        IN  FailsValidation(c.store, c.url) =>
                /\ ~c.ans.raised
                /\ c.ans.rec.error # NoError
                /\ c.ans.rec.title = NoTitle
                /\ c.ans.rec.price = None
                /\ requests = 0
                /\ delays = 0

\* JSON-LD blocks that either carry a numeric Product offer price or do not
\* parse: both scrapers read them alike
PlainBlocks == {BlockBad, BlockPrice1, BlockPrice2}

\* the price candidates of a page in chain order: selectors, JSON-LD blocks,
\* then (Carrefour) script-state patterns; None where a candidate is not found
ChainCandidates(store, page) ==
    [i \in 1..Len(page.sel) |-> IF page.sel[i] > 0 THEN page.sel[i] ELSE None]
    \o [i \in 1..Len(page.ld) |->
            IF page.ld[i].json = "dict" /\ page.ld[i].price > 0
            THEN page.ld[i].price ELSE None]
    \o (IF store = "carrefour"
        THEN [i \in 1..Len(page.st) |-> StateCandidate(page.st[i])]
        ELSE <<>>)

FirstAccepted(cands) ==
    LET ok == {i \in 1..Len(cands) : cands[i] # None}
    IN  IF ok = {} THEN None ELSE cands[MinOf(ok)]

\* C6: the price of a parsed page is the first accepted value met in chain
\* order; a later candidate never replaces an accepted one, and the price is
\* absent if no candidate yields a value.
C6_FirstAcceptedWins ==
    Called =>
        LET c == call[1]
        IN  (/\ ~c.ans.raised
             /\ validate_url(c.store, c.url)
             /\ c.env.fetch = "ok"
             /\ c.env.api = NoApi
             /\ \A i \in 1..Len(c.env.page.ld) : c.env.page.ld[i] \in PlainBlocks)
            => c.ans.rec.price = FirstAccepted(ChainCandidates(c.store, c.env.page))

\* C7: every record returned with a title present and the price absent
\* carries a non-empty error string.
C7_PartialRecordHasError ==
    Called =>
        LET c == call[1]
        IN  (~c.ans.raised /\ TruthyStr(c.ans.rec.title) /\ c.ans.rec.price = None)
            => c.ans.rec.error # NoError

\* the offer price an endpoint's answer carries (None: no usable price)
OfferPrice(a) ==
    IF a.kind = "data" /\ a.items
    THEN (IF a.price > 0 THEN a.price ELSE IF a.spot > 0 THEN a.spot ELSE None)
    ELSE None

\* C8: when the Carrefour page yields no price, the result's price is the
\* offer price of the first endpoint, in order, whose answer contains a
\* parseable offer price; an endpoint without one does not stop later ones.
C8_FirstPricedEndpointWins ==
    Called =>
        LET c == call[1]
            priced == {i \in 1..Len(c.env.api) : OfferPrice(c.env.api[i]) # None}
        IN  (/\ c.store = "carrefour"
             /\ validate_url(c.store, c.url)
             /\ c.env.fetch \in {"ok", "empty"}
             /\ ~Truthy(CarrefourParseProductPage(c.env.page).price)
             /\ ~CarrefourParseProductPage(c.env.page).raised
             /\ priced # {})
            => c.ans.rec.price = OfferPrice(c.env.api[MinOf(priced)])


-----------------------------------------------------------------------------
(* Claims about URLs, checked under SpecUrl *)

\* the URL has a scheme and its host is one of the store's product hosts
OnDomain(url, netlocs) == url.scheme # "" /\ url.netloc \in netlocs

\* the URL is on the store's domain and its path has the /p marker
ProductUrlOf(url, netlocs) == OnDomain(url, netlocs) /\ PathHasSlashP(url)

\* C16: store detection (Store.from_url followed by _get_scraper) and
\* validate_product_url classify a Carrefour-domain URL with the /p marker
\* as Carrefour and a Zaffari-domain URL with the /p marker as Zaffari,
\* whatever else the URL contains, and answer a URL that is neither with the
\* unrecognized-URL outcome (the ValueError of from_url, (False, None) of
\* validate_product_url), never with a store.
C16_StoreClassification ==
    /\ Asked("from_url") =>
          /\ ProductUrlOf(queue[1], CarrefourNetlocs) =>
                /\ ~query[1].result.raised
                /\ query[1].result.store = "carrefour"
                /\ query[1].result.scraper = "carrefour_scraper"
          /\ ProductUrlOf(queue[1], ZaffariNetlocs) =>
                /\ ~query[1].result.raised
                /\ query[1].result.store = "zaffari"
                /\ query[1].result.scraper = "zaffari_scraper"
          /\ ( /\ queue[1].scheme # ""
               /\ ~ProductUrlOf(queue[1], CarrefourNetlocs)
               /\ ~ProductUrlOf(queue[1], ZaffariNetlocs) ) =>
                /\ query[1].result.raised
                /\ query[1].result.exc = MsgUnrecognized
    /\ Asked("validate_product_url") =>
          /\ ProductUrlOf(queue[1], CarrefourNetlocs) =>
                query[1].result.valid /\ query[1].result.store = "carrefour"
          /\ ProductUrlOf(queue[1], ZaffariNetlocs) =>
                query[1].result.valid /\ query[1].result.store = "zaffari"
          /\ ( /\ queue[1].scheme # ""
               /\ ~ProductUrlOf(queue[1], CarrefourNetlocs)
               /\ ~ProductUrlOf(queue[1], ZaffariNetlocs) ) =>
                /\ ~query[1].result.raised
                /\ ~query[1].result.valid
                /\ query[1].result.store = NoTitle

\* the path ends in "-<digits>/p" or "/<digits>/p"
EndsInDigitsP(url) ==
    /\ Len(url.segs) >= 2
    /\ url.segs[Len(url.segs)] = Seg("p", "")
    /\ url.segs[Len(url.segs) - 1].digits # ""

\* C17: extract_sku_from_url and the scrapers' extract_sku return, for a URL
\* whose path ends in -<digits>/p or /<digits>/p, the digits right before
\* that trailing /p, and None for every other URL.
C17_SkuBeforeTrailingP ==
    ( \/ Asked("extract_sku_from_url")
      \/ Asked("ZaffariScraper.extract_sku")
      \/ Asked("CarrefourScraper.extract_sku") ) =>
        IF EndsInDigitsP(queue[1])
        THEN query[1].result = queue[1].segs[Len(queue[1].segs) - 1].digits
        ELSE query[1].result = NoTitle


-----------------------------------------------------------------------------
(* Claims about price texts, checked under SpecPrice *)

\* the digits, points and commas of the price text asked about
Fragment == SelectSeq(queue[1], LAMBDA x : x \in DigitChars \cup {".", ","})

\* the separator that appears last is the decimal separator, the other one
\* is removed
LastSeparatorDecimal(text) ==
    IF RFind(text, ",") > RFind(text, ".")
    THEN Decimal(Replace(Without(text, "."), ",", "."))
    ELSE Decimal(Without(text, ","))

\* C18: for a price text with both a point and a comma, the scrapers'
\* _parse_price (Zaffari, Carrefour) and helpers.parse_price take the
\* separator that appears last for the decimal separator and remove the
\* other: "1.234,60" and "1,234.60" both give 1234.60.
C18_LastSeparatorIsDecimal ==
    ( /\ \/ Asked("ZaffariScraper._parse_price")
         \/ Asked("CarrefourScraper._parse_price")
         \/ Asked("parse_price")
      /\ Has(Fragment, ".")
      /\ Has(Fragment, ",") )
    => query[1].result = LastSeparatorDecimal(Fragment)

\* C19: for a price text whose only separator is one point, the scrapers'
\* _parse_price (Zaffari, Carrefour, Amazon) give: with 2 digits after the
\* point, the decimal value; with 3 digits after it and at most 3 before,
\* the value with the fraction cut to 2 digits ("39.600" is 39.60); with 3
\* digits after it and more than 3 before, the value without the point.
C19_SinglePointRule ==
    ( /\ \/ Asked("ZaffariScraper._parse_price")
         \/ Asked("CarrefourScraper._parse_price")
         \/ Asked("AmazonScraper._parse_price")
      /\ ~Has(Fragment, ",")
      /\ Len(Split(Fragment, ".")) = 2 )
    => LET before_dot == Split(Fragment, ".")[1]
           after_dot == Split(Fragment, ".")[2]
       IN  /\ Len(after_dot) = 2 => query[1].result = Decimal(Fragment)
           /\ (Len(after_dot) = 3 /\ Len(before_dot) <= 3) =>
                 query[1].result =
                     Decimal(before_dot \o <<".">> \o SubSeq(after_dot, 1, 2))
           /\ (Len(after_dot) = 3 /\ Len(before_dot) > 3) =>
                 query[1].result = Decimal(before_dot \o after_dot)

\* the text after an optional "R$" and spaces
Amount(text) ==
    Strip(IF Len(text) >= 2 /\ text[1] = "R" /\ text[2] = "$"
          THEN SubSeq(text, 3, Len(text)) ELSE text)

\* digits only, at least one
IsNumber(text) == text # <<>> /\ \A i \in 1..Len(text) : text[i] \in DigitChars

\* the Brazilian format: an integer part, plain or in point-separated groups
\* of three, a comma and two decimal digits
IsBrazilian(text) ==
    LET amount == Amount(text)
        n == Len(amount)
        groups == Split(SubSeq(amount, 1, n - 3), ".")
    IN  /\ n >= 4
        /\ amount[n - 2] = ","
        /\ IsNumber(SubSeq(amount, n - 1, n))
        /\ \A k \in 1..Len(groups) : IsNumber(groups[k])
        /\ Len(groups) > 1 =>
              /\ Len(groups[1]) <= 3
              /\ \A k \in 2..Len(groups) : Len(groups[k]) = 3

RECURSIVE Concat(_)
Concat(parts) == IF parts = <<>> THEN <<>> ELSE Head(parts) \o Concat(Tail(parts))

\* the value a text in Brazilian format denotes
BrazilianValue(text) ==
    LET amount == Amount(text)
        n == Len(amount)
    IN  [int |-> StripLeadingZeros(Concat(Split(SubSeq(amount, 1, n - 3), "."))),
         frac |-> StripTrailingZeros(SubSeq(amount, n - 1, n))]

\* C20: for a price text in Brazilian format (optional "R$" and spaces,
\* optional point-grouped thousands, a comma, two decimal digits) each
\* normalizer (the three scrapers' _parse_price and helpers.parse_price)
\* returns exactly the value the text denotes, the comma being the
\* decimal separator.
C20_BrazilianFormatExact ==
    ( /\ \/ Asked("ZaffariScraper._parse_price")
         \/ Asked("CarrefourScraper._parse_price")
         \/ Asked("AmazonScraper._parse_price")
         \/ Asked("parse_price")
      /\ IsBrazilian(queue[1]) )
    => query[1].result = BrazilianValue(queue[1])

\* "R$ 1.234,60" was given to helpers.parse_price and came back as 1234.60
C20_Witness ==
    /\ Asked("parse_price")
    /\ queue[1] = <<"R", "$", " ", "1", ".", "2", "3", "4", ",", "6", "0">>
    /\ query[1].result = [int |-> <<"1", "2", "3", "4">>, frac |-> <<"6">>]


\* C21: when a normalizer (Zaffari, Carrefour, helpers.parse_price) accepts
\* a price text, giving it the dot-decimal text of the value it returned
\* returns that same value again.
C21_NormalizeIdempotent ==
    ( /\ Len(query) = 2
      /\ query[1].op \in {"ZaffariScraper._parse_price",
                          "CarrefourScraper._parse_price", "parse_price"} )
    => query[2].result = query[1].result

-----------------------------------------------------------------------------
(* Claims about the product service, checked under SpecService *)

IsPrefix(s, t) == Len(s) <= Len(t) /\ SubSeq(t, 1, Len(s)) = s

ObservationsOf(hist, id) == SelectSeq(hist, LAMBDA row : row.product_id = id)

LastOp(op) == call # <<>> /\ call[1].op = op

\* C22: the price-observation log is append-only.  Every step either leaves
\* the existing observations in place, unchanged and in order (new ones come
\* after them), or it is the deletion of a product and removes exactly the
\* observations of that product.
C22_AppendOnly ==
    [][ \/ IsPrefix(history, history')
        \/ \E id \in DOMAIN products \ DOMAIN products' :
              history' = SelectSeq(history, LAMBDA row : row.product_id # id)
      ]_vars

\* a product was deactivated after two observations were recorded, and both
\* are still there
C22_Witness ==
    /\ LastOp("deactivate_product")
    /\ \E id \in DOMAIN products :
          /\ ~products[id].is_active
          /\ Len(ObservationsOf(history, id)) = 2

LastRow(hist) == hist[Len(hist)]

Succeeded(op) == LastOp(op) /\ call[1].kind = "ok"

\* C23: after a successful add_product or update_product_price the newest
\* observation belongs to the product of the call and carries the scraped
\* price and the scraped availability flag.
C23_ObservationCarriesScrape ==
    (Succeeded("add_product") \/ Succeeded("update_product_price"))
    => /\ history # <<>>
       /\ LastRow(history).product_id = call[1].id
       /\ LastRow(history).price = call[1].scraped.price
       /\ LastRow(history).was_available = call[1].scraped.is_available

FailedCall(c) ==
    /\ c # <<>>
    /\ c[1].op \in {"add_product", "update_product_price"}
    /\ c[1].kind # "ok"

\* C24: a failed add or update changes nothing.  A step that is an
\* add_product or update_product_price call that raised (or found no such
\* product), alone or as an attempt of update_all_prices, leaves the products
\* table, the next product id and the price history as they were.
C24_FailureChangesNothing ==
    [][ ( \/ (call' # call /\ FailedCall(call'))
          \/ (Len(log') = Len(log) + 1 /\ log'[Len(log')].kind # "ok") )
        => /\ products' = products
           /\ history' = history
           /\ next_id' = next_id
      ]_vars

\* an add or update that found no price on the page, with a product and its
\* observation stored
C24_Witness ==
    /\ FailedCall(call)
    /\ call[1].exc = MsgNoPriceUpdate
    /\ DOMAIN products # {}
    /\ history # <<>>

PricesOf(hist, id) ==
    {hist[i].price : i \in {j \in 1..Len(hist) : hist[j].product_id = id}}

\* C26: for every stored product the lowest price is the minimum and the
\* highest price the maximum of its recorded prices, with the current price
\* between them; and no step raises a stored product's lowest price or
\* lowers its highest price.
C26_PriceRange ==
    /\ [](\A id \in DOMAIN products :
            /\ products[id].lowest_price <= products[id].current_price
            /\ products[id].current_price <= products[id].highest_price
            /\ PricesOf(history, id) # {}
            /\ products[id].lowest_price = MinOf(PricesOf(history, id))
            /\ products[id].highest_price = MaxOf(PricesOf(history, id)))
    /\ [][\A id \in DOMAIN products \cap DOMAIN products' :
            /\ products'[id].lowest_price <= products[id].lowest_price
            /\ products'[id].highest_price >= products[id].highest_price]_vars

\* a product added at one price was updated at a lower one
C26_Witness ==
    /\ Succeeded("update_product_price")
    /\ call[1].id \in DOMAIN products
    /\ Len(ObservationsOf(history, call[1].id)) = 2
    /\ products[call[1].id].current_price = products[call[1].id].lowest_price
    /\ products[call[1].id].lowest_price < products[call[1].id].highest_price

\* C27: after every completed add_product or update_product_price, whether
\* it succeeded or failed, the current price of every stored product is the
\* price of its most recent observation.
C27_CurrentIsLatest ==
    (LastOp("add_product") \/ LastOp("update_product_price")) =>
        \A id \in DOMAIN products :
            /\ ObservationsOf(history, id) # <<>>
            /\ products[id].current_price =
                   LastRow(ObservationsOf(history, id)).price

\* a call failed after a stored product had been re-priced: its current
\* price is the second observation's, not the first's
C27_Witness ==
    /\ FailedCall(call)
    /\ \E id \in DOMAIN products :
          LET obs == ObservationsOf(history, id)
          IN  /\ Len(obs) = 2
              /\ obs[1].price # obs[2].price
              /\ products[id].current_price = obs[2].price

\* C28: the products table never holds two rows with the same identifier
\* and store, and the product a successful add_product returns is stored,
\* active, carries the scraped identifier and has the scraped price as its
\* current price.
C28_OnePerIdentifier ==
    /\ \A i, j \in DOMAIN products :
          (products[i].asin = products[j].asin
             /\ products[i].store = products[j].store) => i = j
    /\ Succeeded("add_product") =>
          /\ call[1].id \in DOMAIN products
          /\ products[call[1].id].is_active
          /\ products[call[1].id].asin = call[1].scraped.sku
          /\ products[call[1].id].current_price = call[1].scraped.price

\* the only product ever inserted was added a second time, at another price
C28_Witness ==
    /\ Succeeded("add_product")
    /\ next_id = 2
    /\ call[1].id = 1
    /\ Len(ObservationsOf(history, 1)) = 2
    /\ history[1].price # history[2].price

\* C29: the record a successful add_product returns was stored for the very
\* URL that was added, or a numeric identifier was extracted from that URL
\* and the same one from the URL of the record.
C29_SameIdentifierOnly ==
    Succeeded("add_product") =>
        \/ products[call[1].id].url = call[1].url
        \/ /\ TruthyStr(extract_sku(call[1].url))
           /\ extract_sku(products[call[1].id].url) = extract_sku(call[1].url)

-----------------------------------------------------------------------------
(* A claim about update_all_prices, checked under SpecBatch *)

TimesFailed(id) == Cardinality({k \in 1..Len(failed) : failed[k].id = id})

TimesUpdated(id) == Cardinality({k \in 1..Len(updated) : updated[k] = id})

\* C25: in update_all_prices every product the loop has finished with got
\* one or two attempts and is once in updated or once in failed, never in
\* both; the loop slept only directly after a first attempt whose error was
\* classified blocked, never after a second attempt.
C25_OneOutcomePerProduct ==
    (pc \in {"update", "done"} /\ scraper = "") =>
        \A k \in 1..Len(queue) :
            LET id == queue[k]
            IN  /\ k < idx =>
                      /\ Cardinality(Entries(id)) \in 1..MaxAttempts
                      /\ TimesUpdated(id) + TimesFailed(id) = 1
                /\ \A i \in Entries(id) :
                      log[i].slept => log[i].attempt = 0 /\ BlockedEntry(i)

\* the loop is over; one product was blocked, waited for and then failed for
\* good, another was updated at once
C25_Witness ==
    /\ pc = "done" /\ scraper = ""
    /\ \E a, b \in 1..Len(queue) :
          /\ Cardinality(Entries(queue[a])) = 2
          /\ \E i \in Entries(queue[a]) : log[i].slept
          /\ TimesFailed(queue[a]) = 1
          /\ Cardinality(Entries(queue[b])) = 1
          /\ TimesUpdated(queue[b]) = 1

-----------------------------------------------------------------------------
(* A claim about the alert service, checked under SpecAlerts *)

TimesReported(alert_id) ==
    Cardinality({k \in 1..Len(log) : log[k].alert = alert_id})

\* C30: a triggered alert stays triggered with the same triggered price on
\* every step that is not a reset of that alert, and no alert is reported as
\* newly triggered more than once since its last reset.
C30_TriggeredUntilReset ==
    /\ [][\A a \in DOMAIN alerts :
            alerts[a].is_triggered =>
                \/ alerts' = reset_alert(alerts, a)
                \/ /\ a \in DOMAIN alerts'
                   /\ alerts'[a].is_triggered
                   /\ alerts'[a].triggered_price = alerts[a].triggered_price]_vars
    /\ [](\A a \in DOMAIN alerts : TimesReported(a) <= 1)

\* an alert triggered at one price, reported once, still carries that price
\* although the product's price has fallen below it and its condition holds
C30_Witness ==
    \E a \in DOMAIN alerts :
        /\ alerts[a].is_triggered
        /\ alerts[a].is_active
        /\ TimesReported(a) = 1
        /\ products[alerts[a].product_id].current_price < alerts[a].triggered_price
        /\ should_trigger(alerts[a], products[alerts[a].product_id])

=============================================================================
